---- MODULE Spec2Model ----
(***************************************************************************)
(* Csv-Data-Viewer: the parsing / normalization pipeline                   *)
(*   src/lib/parser/normalize.ts, src/lib/parser/parseCsvFile.ts and the   *)
(*   browser twin parseCsvTextBrowser.                                     *)
(*                                                                         *)
(* Representation.                                                         *)
(*   A JavaScript string is a sequence of characters.  A character is a    *)
(*   one-element TLA+ string; a run of letters that no stage of the        *)
(*   pipeline ever looks into (a header name such as SerialNumber, a word  *)
(*   such as Pass) is carried as one character-like atom.  Digits, signs,  *)
(*   blanks, quotes, semicolons and line terminators are single atoms.     *)
(*   undefined / null are the empty sequence <<>>, a present value x is    *)
(*   the one-element sequence <<x>>.                                       *)
(***************************************************************************)
EXTENDS Integers, Sequences, FiniteSets, TLC

VARIABLES
    pc,           \* position of the call under way
    fileName,     \* argument fileName of parseCsvText / parseCsvTextBrowser
    text,         \* argument text
    locals,       \* <<>> or <<l>>: the locals of splitMetaAndTests when it returns
    split,        \* <<>> or <<r>>: what splitMetaAndTests returned
    metaRecords,  \* records parsed from metaSectionText
    testRecords,  \* records parsed from testsSectionText
    parser,       \* "node" (csv-parse) or "browser" (papaparse), "" before the choice
    result,       \* <<>> or <<ParsedCsvFile>>
    value,        \* computeInLimit: argument value
    lower,        \* computeInLimit: argument lower
    upper,        \* computeInLimit: argument upper
    inLimit,      \* computeInLimit: <<>> before the call, <<returned>> after
    parsedFiles,  \* what the caller holds of the calls that have ended
    rawCell,      \* toNumberOrNull: argument raw, <<>> (undefined) or <<string>>
    app,          \* App.tsx: the state of the component App
    loads         \* App.tsx: the calls of handleFilesSelected waiting at their await

vars == <<pc, fileName, text, locals, split, metaRecords, testRecords, parser, result,
          value, lower, upper, inLimit, parsedFiles, rawCell, app, loads>>

(***************************************************************************)
(* Characters                                                              *)
(***************************************************************************)
LF    == "\n"
CR    == "\r"
SP    == " "
SEMI  == ";"
QUOTE == "\""
COMMA == ","
BOM   == "FEFF"

\* ECMAScript WhiteSpace and LineTerminator, as String.prototype.trim strips
\* them: U+FEFF is white space.
IsJsWhiteSpace(c) == c \in {SP, BOM, LF, CR}

Null == <<>>
Undefined == <<>>
Some(x) == <<x>>

Min(a, b) == IF a <= b THEN a ELSE b

(***************************************************************************)
(* String helpers of the JavaScript runtime                                *)
(***************************************************************************)
RECURSIVE TrimStart(_)
TrimStart(s) ==
    IF s = <<>> THEN <<>>
    ELSE IF IsJsWhiteSpace(Head(s)) THEN TrimStart(Tail(s))
    ELSE s

RECURSIVE TrimEnd(_)
TrimEnd(s) ==
    IF s = <<>> THEN <<>>
    ELSE IF IsJsWhiteSpace(s[Len(s)]) THEN TrimEnd(SubSeq(s, 1, Len(s) - 1))
    ELSE s

\* String.prototype.trim
Trim(s) == TrimEnd(TrimStart(s))

\* String.prototype.split('\n'): always at least one piece.
RECURSIVE SplitOn(_, _)
SplitOn(s, sep) ==
    IF \E i \in 1..Len(s) : s[i] = sep
    THEN LET i == CHOOSE i \in 1..Len(s) :
                      s[i] = sep /\ \A j \in 1..(i - 1) : s[j] # sep
         IN  <<SubSeq(s, 1, i - 1)>> \o SplitOn(SubSeq(s, i + 1, Len(s)), sep)
    ELSE <<s>>

\* Array.prototype.join
RECURSIVE Join(_, _)
Join(parts, sep) ==
    IF parts = <<>> THEN <<>>
    ELSE IF Len(parts) = 1 THEN parts[1]
    ELSE parts[1] \o <<sep>> \o Join(Tail(parts), sep)

\* Array.prototype.filter: the elements of s from index i on that keep holds of
RECURSIVE FilterSeq(_, _, _)
FilterSeq(s, keep(_), i) ==
    IF i > Len(s) THEN <<>>
    ELSE (IF keep(s[i]) THEN <<s[i]>> ELSE <<>>) \o FilterSeq(s, keep, i + 1)

(***************************************************************************)
(* normalize.ts                                                            *)
(***************************************************************************)
ReplaceLineEndingsEach(s) == [i \in 1..Len(s) |-> IF s[i] = CR THEN LF ELSE s[i]]

\* text.replace(/\r\n?/g, '\n')
RECURSIVE ReplaceLineEndings(_)
ReplaceLineEndings(s) ==
    IF s = <<>> THEN <<>>
    ELSE IF Head(s) = CR
         THEN IF Len(s) >= 2 /\ s[2] = LF
              THEN <<LF>> \o ReplaceLineEndings(SubSeq(s, 3, Len(s)))
              ELSE <<LF>> \o ReplaceLineEndings(Tail(s))
         ELSE <<Head(s)>> \o ReplaceLineEndings(Tail(s))

normalizeInputKeepBom(t) == ReplaceLineEndings(t)

normalizeInput(t) ==
    LET withoutBom == IF Len(t) >= 1 /\ t[1] = BOM THEN Tail(t) ELSE t
    IN  ReplaceLineEndings(withoutBom)

computeInLimitNoBothNull(v, lo, up) ==
    IF v = Null THEN Null
    ELSE IF lo # Null /\ v[1] < lo[1] THEN Some(FALSE)
    ELSE IF up # Null /\ v[1] > up[1] THEN Some(FALSE)
    ELSE Some(TRUE)

\* boolean | null as <<>> (null), <<TRUE>>, <<FALSE>>
computeInLimit(v, lo, up) ==
    IF v = Null THEN Null
    ELSE IF lo = Null /\ up = Null THEN Null
    ELSE IF lo # Null /\ v[1] < lo[1] THEN Some(FALSE)
    ELSE IF up # Null /\ v[1] > up[1] THEN Some(FALSE)
    ELSE Some(TRUE)

(***************************************************************************)
(* Number(trimmed): the StringNumericLiteral grammar of ECMAScript: a       *)
(* signed decimal literal with optional point and exponent, the word       *)
(* Infinity with an optional sign, an unsigned 0x / 0b / 0o literal.       *)
(* Anything else is NaN.                                                   *)
(***************************************************************************)
Digits == <<"0", "1", "2", "3", "4", "5", "6", "7", "8", "9">>

IsDigit(c) == \E d \in 1..10 : Digits[d] = c

DigitVal(c) == (CHOOSE d \in 1..10 : Digits[d] = c) - 1

IsHexDigit(c) == IsDigit(c) \/ c \in {"A", "B", "C", "D", "E", "F"}

HexDigitVal(c) ==
    IF IsDigit(c) THEN DigitVal(c)
    ELSE CASE c = "A" -> 10 [] c = "B" -> 11 [] c = "C" -> 12
           [] c = "D" -> 13 [] c = "E" -> 14 [] c = "F" -> 15

RECURSIVE RadixVal(_, _)
RadixVal(s, radix) ==
    IF s = <<>> THEN 0
    ELSE RadixVal(SubSeq(s, 1, Len(s) - 1), radix) * radix + HexDigitVal(s[Len(s)])

IsDecimalDigits(s) == s # <<>> /\ \A i \in 1..Len(s) : IsDigit(s[i])

\* 0x / 0b / 0o followed by digits of the radix, in either case of the letter
IsRadixLiteral(s, letters, radix) ==
    /\ Len(s) >= 3
    /\ s[1] = "0"
    /\ s[2] \in letters
    /\ \A i \in 3..Len(s) : IsHexDigit(s[i]) /\ HexDigitVal(s[i]) < radix

IsHexLiteral(s) == IsRadixLiteral(s, {"x", "X"}, 16)

NaN == [kind |-> "NaN", n |-> 0]

\* the index of the first element of s in the set, 0 when there is none
FirstOf(s, set) ==
    IF \E i \in 1..Len(s) : s[i] \in set
    THEN CHOOSE i \in 1..Len(s) : s[i] \in set /\ \A j \in 1..(i - 1) : s[j] \notin set
    ELSE 0

\* an unsigned decimal literal cut into integer digits, fraction digits and
\* exponent part (the characters after e / E)
DecimalParts(body) ==
    LET ePos == FirstOf(body, {"e", "E"})
        mant == IF ePos = 0 THEN body ELSE SubSeq(body, 1, ePos - 1)
        dot  == FirstOf(mant, {"."})
    IN  [int  |-> IF dot = 0 THEN mant ELSE SubSeq(mant, 1, dot - 1),
         frac |-> IF dot = 0 THEN <<>> ELSE SubSeq(mant, dot + 1, Len(mant)),
         hasExp |-> ePos # 0,
         exp  |-> IF ePos = 0 THEN <<>> ELSE SubSeq(body, ePos + 1, Len(body))]

AllDigits(s) == \A i \in 1..Len(s) : IsDigit(s[i])

\* the digits of an exponent part, its sign left out
ExpDigits(exp) == IF exp # <<>> /\ exp[1] \in {"+", "-"} THEN Tail(exp) ELSE exp

\* StrUnsignedDecimalLiteral without Infinity: digits . digits? exp?,
\* . digits exp?, digits exp?
IsUnsignedDecimal(body) ==
    \E p \in {DecimalParts(body)} :
        /\ AllDigits(p.int) /\ AllDigits(p.frac)
        /\ Len(p.int) + Len(p.frac) >= 1
        /\ p.hasExp => IsDecimalDigits(ExpDigits(p.exp))

RECURSIVE Pow10(_)
Pow10(x) == IF x = 0 THEN 1 ELSE 10 * Pow10(x - 1)

\* m * 10^x with the trailing zeros of m moved into the exponent
RECURSIVE StripZeros(_, _)
StripZeros(m, x) ==
    IF m # 0 /\ m % 10 = 0 THEN StripZeros(m \div 10, x + 1)
    ELSE [mant |-> m, exp |-> x]

\* m * 10^x as the model carries a finite number: the integer itself when
\* it is one of at most eight digits, otherwise mantissa and exponent with
\* the mantissa free of trailing zeros
Canonical(m, x) ==
    CHOOSE n \in { IF c.mant = 0 THEN 0
                   ELSE IF c.exp >= 0 /\ c.exp <= 4 /\ c.mant < 10000 /\ c.mant > -10000
                        THEN c.mant * Pow10(c.exp)
                   ELSE c : c \in {StripZeros(m, x)} } : TRUE

\* the sign of an exponent part
ExpSign(exp) == IF exp # <<>> /\ exp[1] = "-" THEN -1 ELSE 1

\* the value of an unsigned decimal literal of mantissa digits m (an
\* integer), d of them, and exponent e; Infinity from 10^309 on (the
\* literals between the largest double and 10^309 are not told apart)
DecimalOf(m, d, x, sign) ==
    IF m # 0 /\ x + d > 309 THEN [kind |-> "Infinity", n |-> sign]
    ELSE [kind |-> "finite", n |-> Canonical(sign * m, x)]

DecimalValue(body, sign) ==
    CHOOSE v \in UNION {
        { DecimalOf(m, Len(p.int) + Len(p.frac), e - Len(p.frac), sign) :
              m \in {RadixVal(p.int \o p.frac, 10)},
              e \in {IF p.hasExp THEN ExpSign(p.exp) * RadixVal(ExpDigits(p.exp), 10)
                     ELSE 0} } :
        p \in {DecimalParts(body)} } : TRUE

\* Number(s) for a string s; the caller has trimmed it and found it non-empty
JsNumber(s) ==
    LET signed == s # <<>> /\ s[1] \in {"+", "-"}
        body   == IF signed THEN Tail(s) ELSE s
        sign   == IF signed /\ s[1] = "-" THEN -1 ELSE 1
    IN  IF IsUnsignedDecimal(body) THEN DecimalValue(body, sign)
        ELSE IF body = <<"Infinity">> THEN [kind |-> "Infinity", n |-> sign]
        ELSE IF ~signed /\ IsHexLiteral(s)
             THEN [kind |-> "finite", n |-> RadixVal(SubSeq(s, 3, Len(s)), 16)]
        ELSE IF ~signed /\ IsRadixLiteral(s, {"b", "B"}, 2)
             THEN [kind |-> "finite", n |-> RadixVal(SubSeq(s, 3, Len(s)), 2)]
        ELSE IF ~signed /\ IsRadixLiteral(s, {"o", "O"}, 8)
             THEN [kind |-> "finite", n |-> RadixVal(SubSeq(s, 3, Len(s)), 8)]
        ELSE NaN

\* Number.isFinite
NumberIsFinite(x) == x.kind = "finite"

\* raw: string | undefined, as <<>> or <<string>>; returns number | null
toNumberOrNull(raw) ==
    IF raw = Undefined THEN Null
    ELSE LET trimmed == Trim(raw[1])
         IN  IF Len(trimmed) = 0 THEN Null
             ELSE LET parsed == JsNumber(trimmed)
                  IN  IF NumberIsFinite(parsed) THEN Some(parsed.n) ELSE Null

\* String.prototype.toLowerCase on the words a Skipped cell carries
ToLowerCase(s) ==
    [i \in 1..Len(s) |->
        CASE s[i] \in {"true", "TRUE", "True"} -> "true"
          [] s[i] \in {"false", "FALSE", "False"} -> "false"
          [] OTHER -> s[i]]

parseBooleanOrNull(raw) ==
    IF raw = Undefined THEN Null
    ELSE LET normalized == ToLowerCase(Trim(raw[1]))
         IN  IF normalized = <<"true">> THEN Some(TRUE)
             ELSE IF normalized = <<"false">> THEN Some(FALSE)
             ELSE Null

(***************************************************************************)
(* splitMetaAndTests                                                       *)
(***************************************************************************)
IsBlankLine(line) == Trim(line) = <<>>

WarnNoSeparator(f) ==
    f \o <<": no blank separator line found; applied positional fallback split.">>

WarnMetaShort(f) == f \o <<": metadata section has fewer than two rows.">>

WarnTestsEmpty(f) == f \o <<": test section is empty.">>

SeparatorIndexLast(lines) ==
    LET hit(i) == /\ Trim(lines[i]) = <<>>
                  /\ \E j \in (i + 1)..Len(lines) : Len(Trim(lines[j])) > 0
    IN  IF \E i \in 1..Len(lines) : hit(i)
        THEN CHOOSE i \in 1..Len(lines) : hit(i) /\ \A j \in (i + 1)..Len(lines) : ~hit(j)
        ELSE 0

SeparatorIndexAnyBlank(lines) ==
    IF \E i \in 1..Len(lines) : IsBlankLine(lines[i])
    THEN CHOOSE i \in 1..Len(lines) :
             IsBlankLine(lines[i]) /\ \A j \in 1..(i - 1) : ~IsBlankLine(lines[j])
    ELSE 0

\* lines.findIndex(...): the 1-based index here, 0 where JavaScript gives -1
SeparatorIndex(lines) ==
    LET hit(i) == /\ IsBlankLine(lines[i])
                  /\ \E j \in (i + 1)..Len(lines) : Len(Trim(lines[j])) > 0
    IN  IF \E i \in 1..Len(lines) : hit(i)
        THEN CHOOSE i \in 1..Len(lines) : hit(i) /\ \A j \in 1..(i - 1) : ~hit(j)
        ELSE 0

\* lines[i] ?? '' for a 1-based index
LineOrEmpty(lines, i) == IF i <= Len(lines) THEN lines[i] ELSE <<>>

NonBlankLine(line) == Len(Trim(line)) > 0

FallbackMetaLinesUnpadded(lines) == SubSeq(lines, 1, Min(2, Len(lines)))

\* metaLines = [lines[0] ?? '', lines[1] ?? '']
FallbackMetaLines(lines) == <<LineOrEmpty(lines, 1), LineOrEmpty(lines, 2)>>

\* lines 104-130: the locals when the return statement is reached
SplitLocals(f, t) ==
    LET normalized == normalizeInput(t)
        lines == SplitOn(normalized, LF)
        separatorIndex == SeparatorIndex(lines)
        found == separatorIndex >= 1
        metaLines ==
            IF found THEN SubSeq(lines, 1, separatorIndex - 1)
            ELSE FallbackMetaLines(lines)
        testLines ==
            IF found
            THEN FilterSeq(SubSeq(lines, separatorIndex + 1, Len(lines)), NonBlankLine, 1)
            ELSE SubSeq(lines, 3, Len(lines))
        w1 == IF found THEN <<>> ELSE <<WarnNoSeparator(f)>>
        w2 == IF Len(metaLines) < 2 THEN <<WarnMetaShort(f)>> ELSE <<>>
    IN  [normalized |-> normalized, lines |-> lines, separatorIndex |-> separatorIndex,
         metaLines |-> metaLines, testLines |-> testLines, warnings |-> w1 \o w2]

SplitReturnNoSlice(l) ==
    [metaSectionText  |-> Join(l.metaLines, LF),
     testsSectionText |-> Join(l.testLines, LF),
     warnings         |-> l.warnings]

\* lines 132-136: the object returned
SplitReturn(l) ==
    [metaSectionText  |-> Join(SubSeq(l.metaLines, 1, Min(2, Len(l.metaLines))), LF),
     testsSectionText |-> Join(l.testLines, LF),
     warnings         |-> l.warnings]

splitMetaAndTests(f, t) == SplitReturn(SplitLocals(f, t))

(***************************************************************************)
(* JavaScript objects: the own properties in insertion order, as a         *)
(* sequence of [k, v] with distinct keys.                                  *)
(***************************************************************************)
ObjHas(obj, key) == \E i \in 1..Len(obj) : obj[i].k = key

\* obj[key]: <<>> (undefined) or <<value>>
ObjGet(obj, key) ==
    IF ObjHas(obj, key)
    THEN Some(obj[CHOOSE i \in 1..Len(obj) : obj[i].k = key].v)
    ELSE Undefined

\* obj[key] = val
ObjSet(obj, key, val) ==
    IF ObjHas(obj, key)
    THEN [i \in 1..Len(obj) |-> IF obj[i].k = key THEN [k |-> key, v |-> val] ELSE obj[i]]
    ELSE Append(obj, [k |-> key, v |-> val])

\* A value of type unknown as the record parsers produce it: a string, or
\* (papaparse's __parsed_extra) an array of strings.
StrVal(s) == [isArray |-> FALSE, items |-> <<s>>]
ArrVal(a) == [isArray |-> TRUE, items |-> a]

\* String(value): an array joins its elements with commas
JsString(val) == IF val.isArray THEN Join(val.items, COMMA) ELSE val.items[1]

RECURSIVE SanitizeFrom(_, _, _)
SanitizeFrom(record, i, sanitized) ==
    IF i > Len(record) THEN sanitized
    ELSE LET trimmedKey == Trim(record[i].k)
         IN  IF trimmedKey = <<>>
             THEN SanitizeFrom(record, i + 1, sanitized)
             ELSE SanitizeFrom(record, i + 1,
                               ObjSet(sanitized, trimmedKey, Trim(JsString(record[i].v))))

sanitizeRawRecordKnownOnly(record) ==
    SelectSeq(SanitizeFrom(record, 1, <<>>),
              LAMBDA e : e.k \in {<<"SerialNumber">>, <<"Result">>, <<"TestTime">>,
                                  <<"SitesNumber">>, <<"TsName">>, <<"Value">>,
                                  <<"PassFail">>, <<"Status">>})

sanitizeRawRecord(record) == SanitizeFrom(record, 1, <<>>)

Key(name) == <<name>>

\* Number.prototype.toString for a non-negative integer
RECURSIVE NumberToString(_)
NumberToString(n) ==
    IF n < 10 THEN <<Digits[n + 1]>>
    ELSE NumberToString(n \div 10) \o <<Digits[(n % 10) + 1]>>

WarnFailSkipped(f, n) ==
    f \o <<": row ">> \o NumberToString(n) \o <<" has PassFail=Fail with Status=Skipped.">>

\* Object.values(record).some((value) => value.length > 0)
HasNonBlankValueUnwarned(record) ==
    /\ \E i \in 1..Len(record) : Len(record[i].v) > 0
    /\ ~(/\ ObjGet(record, Key("PassFail")) = Some(<<"Fail">>)
         /\ ObjGet(record, Key("Status")) = Some(<<"Skipped">>))

HasNonBlankValue(record) == \E i \in 1..Len(record) : Len(record[i].v) > 0

IsFailSkippedEither(raw) ==
    \/ ObjGet(raw, Key("PassFail")) = Some(<<"Fail">>)
    \/ ObjGet(raw, Key("Status")) = Some(<<"Skipped">>)

\* raw.PassFail === 'Fail' && raw.Status === 'Skipped'
IsFailSkipped(raw) ==
    /\ ObjGet(raw, Key("PassFail")) = Some(<<"Fail">>)
    /\ ObjGet(raw, Key("Status")) = Some(<<"Skipped">>)

HasAnyLimitBoth(lowerLimit, upperLimit) == lowerLimit # Null /\ upperLimit # Null

\* const hasAnyLimit = lowerLimit !== null || upperLimit !== null
HasAnyLimit(lowerLimit, upperLimit) == lowerLimit # Null \/ upperLimit # Null

\* the callback of the second .map of normalizeParsedData, without its push
TestRowOf(raw) ==
    LET lowerLimit == toNumberOrNull(ObjGet(raw, Key("LowerLimit")))
        upperLimit == toNumberOrNull(ObjGet(raw, Key("UpperLimit")))
        val        == toNumberOrNull(ObjGet(raw, Key("Value")))
        hasAnyLimit == HasAnyLimit(lowerLimit, upperLimit)
    IN  [status        |-> ObjGet(raw, Key("Status")),
         tsId          |-> ObjGet(raw, Key("TsId")),
         tsName        |-> ObjGet(raw, Key("TsName")),
         siteId        |-> ObjGet(raw, Key("SiteId")),
         siteSn        |-> ObjGet(raw, Key("SiteSN")),
         expectedRegex |-> ObjGet(raw, Key("Expected/Regex")),
         lowerLimitRaw |-> ObjGet(raw, Key("LowerLimit")),
         upperLimitRaw |-> ObjGet(raw, Key("UpperLimit")),
         valueRaw      |-> ObjGet(raw, Key("Value")),
         lowerLimit    |-> lowerLimit,
         upperLimit    |-> upperLimit,
         value         |-> val,
         unit          |-> ObjGet(raw, Key("Unit")),
         type          |-> ObjGet(raw, Key("Type")),
         skipped       |-> parseBooleanOrNull(ObjGet(raw, Key("Skipped"))),
         passFail      |-> ObjGet(raw, Key("PassFail")),
         testTimeRaw   |-> ObjGet(raw, Key("TestTime")),
         testTime      |-> toNumberOrNull(ObjGet(raw, Key("TestTime"))),
         isNumericValue |-> val # Null,
         hasAnyLimit   |-> hasAnyLimit,
         inLimit       |-> computeInLimit(val, lowerLimit, upperLimit),
         raw           |-> raw]

RowNumberNoHeader(i) == i

\* ${index + 2}: index is 0-based in the code, i is 1-based here
RowNumber(i) == (i - 1) + 2

\* the warnings the .map callback pushes, in row order
RECURSIVE RowWarnings(_, _, _)
RowWarnings(f, rows, i) ==
    IF i > Len(rows) THEN <<>>
    ELSE (IF IsFailSkipped(rows[i]) THEN <<WarnFailSkipped(f, RowNumber(i))>> ELSE <<>>)
         \o RowWarnings(f, rows, i + 1)

MetaOf(metaRaw) ==
    [serialNumber          |-> ObjGet(metaRaw, Key("SerialNumber")),
     result                |-> ObjGet(metaRaw, Key("Result")),
     detailResult          |-> ObjGet(metaRaw, Key("DetailResult")),
     stationId             |-> ObjGet(metaRaw, Key("StationID")),
     testName              |-> ObjGet(metaRaw, Key("TestName")),
     testDefinitionFile    |-> ObjGet(metaRaw, Key("TestDefinitionFile")),
     testVersion           |-> ObjGet(metaRaw, Key("TestVersion")),
     testDefinitionVersion |-> ObjGet(metaRaw, Key("TestDefinitionVersion")),
     testTimeSeconds       |-> toNumberOrNull(ObjGet(metaRaw, Key("TestTime"))),
     sitesNumber           |-> toNumberOrNull(ObjGet(metaRaw, Key("SitesNumber"))),
     date                  |-> ObjGet(metaRaw, Key("Date")),
     time                  |-> ObjGet(metaRaw, Key("Time")),
     serial1               |-> ObjGet(metaRaw, Key("Serial1")),
     raw                   |-> metaRaw]

EmptyTestsWarningsFirst(f, warnings) == <<WarnTestsEmpty(f)>> \o warnings

\* warnings.push(`${fileName}: test section is empty.`)
EmptyTestsWarnings(f, warnings) == Append(warnings, WarnTestsEmpty(f))

\* metaRecord: <<>> (undefined) or <<record>>
normalizeParsedData(f, metaRecord, records, initialWarnings) ==
    LET metaRaw == sanitizeRawRecord(IF metaRecord = Undefined THEN <<>> ELSE metaRecord[1])
        meta == MetaOf(metaRaw)
    IN  IF Len(records) = 0
        THEN [meta |-> meta, tests |-> <<>>,
              warnings |-> EmptyTestsWarnings(f, initialWarnings)]
        ELSE LET sanitized == [i \in 1..Len(records) |-> sanitizeRawRecord(records[i])]
                 kept == FilterSeq(sanitized, HasNonBlankValue, 1)
             IN  [meta |-> meta,
                  tests |-> [i \in 1..Len(kept) |-> TestRowOf(kept[i])],
                  warnings |-> initialWarnings \o RowWarnings(f, kept, 1)]

(***************************************************************************)
(* parseCsvFile.ts: parseSemicolonRecords, the call of csv-parse/sync with *)
(*   delimiter ';', columns: true, relax_column_count: true,               *)
(*   skip_empty_lines: true, trim: true                                    *)
(* (quote and escape are the library's default double quote; the record    *)
(* delimiter it discovers is the line feed, the only terminator left by    *)
(* normalizeInput).  The scan is the library's character loop.             *)
(***************************************************************************)
\* the characters csv-parse's ltrim / closing-quote test call trimable
IsCsvTrimable(c) == c \in {SP, LF, CR}

CsvStart ==
    [quoting |-> FALSE, wasQuoting |-> FALSE, escaping |-> FALSE,
     field |-> <<>>, record |-> <<>>, rows |-> <<>>, error |-> ""]

\* __onField: rtrim of an unquoted field is String.prototype.trimRight
CsvOnField(st) ==
    [st EXCEPT !.record = Append(st.record,
                                 IF st.wasQuoting THEN st.field ELSE TrimEnd(st.field)),
               !.field = <<>>,
               !.wasQuoting = FALSE]

\* __onRecord: the record is kept; columns are applied in CsvObjects
CsvOnRecord(st) == [st EXCEPT !.rows = Append(st.rows, st.record), !.record = <<>>]

CsvEnd(st) ==
    IF st.quoting THEN [st EXCEPT !.error = "CSV_QUOTE_NOT_CLOSED"]
    ELSE IF st.wasQuoting \/ st.record # <<>> \/ st.field # <<>>
         THEN CsvOnRecord(CsvOnField(st))
         ELSE st

CsvStep(buf, pos, st) ==
    LET chr == buf[pos]
        hasNext == pos + 1 <= Len(buf)
        nextIs(c) == hasNext /\ buf[pos + 1] = c
        append == [st EXCEPT !.field = Append(st.field, chr), !.escaping = FALSE]
    IN  IF st.escaping THEN append
        ELSE IF st.quoting /\ chr = QUOTE /\ nextIs(QUOTE)
             THEN [st EXCEPT !.escaping = TRUE]
        ELSE IF chr = QUOTE
             THEN IF st.quoting
                  THEN IF ~hasNext \/ nextIs(SEMI) \/ nextIs(LF) \/ IsCsvTrimable(buf[pos + 1])
                       THEN [st EXCEPT !.quoting = FALSE, !.wasQuoting = TRUE]
                       ELSE [st EXCEPT !.error = "CSV_INVALID_CLOSING_QUOTE"]
                  ELSE IF Len(st.field) # 0
                       THEN [st EXCEPT !.error = "INVALID_OPENING_QUOTE"]
                       ELSE [st EXCEPT !.quoting = TRUE]
        ELSE IF ~st.quoting /\ chr = LF
             THEN IF ~st.wasQuoting /\ st.record = <<>> /\ st.field = <<>>
                  THEN st
                  ELSE CsvOnRecord(CsvOnField(st))
        ELSE IF ~st.quoting /\ chr = SEMI
             THEN CsvOnField(st)
        ELSE LET lappend == st.quoting \/ Len(st.field) # 0 \/ ~IsCsvTrimable(chr)
                 rappend == ~st.wasQuoting
             IN  IF lappend /\ rappend THEN append
                 ELSE IF ~IsCsvTrimable(chr)
                      THEN [st EXCEPT !.error = "CSV_NON_TRIMABLE_CHAR_AFTER_CLOSING_QUOTE"]
                      ELSE st

RECURSIVE CsvScan(_, _, _)
CsvScan(buf, pos, st) ==
    IF st.error # "" THEN st
    ELSE IF pos > Len(buf) THEN CsvEnd(st)
    ELSE CsvScan(buf, pos + 1, CsvStep(buf, pos, st))

\* columns: true with relax_column_count: cells beyond the header are dropped,
\* a short row sets only the keys it has, a repeated name keeps the last cell
RECURSIVE CsvObject(_, _, _, _)
CsvObject(columns, row, i, obj) ==
    IF i > Len(row) THEN obj
    ELSE IF i > Len(columns) THEN CsvObject(columns, row, i + 1, obj)
    ELSE CsvObject(columns, row, i + 1, ObjSet(obj, columns[i], StrVal(row[i])))

CsvObjects(rows) ==
    IF rows = <<>> THEN <<>>
    ELSE [i \in 1..(Len(rows) - 1) |-> CsvObject(rows[1], rows[i + 1], 1, <<>>)]

\* what a call returns: the records, or that it threw
Returned(records) == [threw |-> FALSE, records |-> records]
Threw == [threw |-> TRUE, records |-> <<>>]

parseCsv(sectionText) ==
    LET st == CsvScan(sectionText, 1, CsvStart)
    IN  IF st.error # "" THEN Threw ELSE Returned(CsvObjects(st.rows))

parseSemicolonRecords(sectionText) ==
    IF Len(Trim(sectionText)) = 0 THEN Returned(<<>>)
    ELSE parseCsv(sectionText)

(***************************************************************************)
(* parseSemicolonRecordsBrowser, the call of Papa.parse with               *)
(*   delimiter ';', header: true, skipEmptyLines: true,                    *)
(*   transformHeader: trim, transform: trim                                *)
(* The low-level scan is the library's: without a quote in the input it    *)
(* splits on line feeds and semicolons; with one it runs the cursor loop.  *)
(* Malformed quotes are recorded in result.errors, which the code drops.   *)
(***************************************************************************)
\* input.indexOf(c, from), 1-based; 0 where JavaScript gives -1
IndexOf(input, c, from) ==
    IF \E i \in from..Len(input) : input[i] = c
    THEN CHOOSE i \in from..Len(input) :
             input[i] = c /\ \A j \in from..(i - 1) : input[j] # c
    ELSE 0

\* .replace(/""/g, '"')
RECURSIVE UnescapeQuotes(_)
UnescapeQuotes(s) ==
    IF Len(s) < 2 THEN s
    ELSE IF s[1] = QUOTE /\ s[2] = QUOTE
         THEN <<QUOTE>> \o UnescapeQuotes(SubSeq(s, 3, Len(s)))
         ELSE <<s[1]>> \o UnescapeQuotes(Tail(s))

\* extraSpaces(index) after the closing quote at position q
ExtraSpaces(input, q, index) ==
    IF index = 0 THEN 0
    ELSE LET between == SubSeq(input, q + 1, index - 1)
         IN  IF between # <<>> /\ Trim(between) = <<>> THEN Len(between) ELSE 0

RECURSIVE PapaLoop(_, _, _, _)
RECURSIVE PapaQuoted(_, _, _, _, _)
\* the parser loop at an unquoted cursor
PapaLoop(input, cursor, row, rows) ==
    IF cursor <= Len(input) /\ input[cursor] = QUOTE
    THEN PapaQuoted(input, cursor + 1, cursor, row, rows)
    ELSE LET nextDelim   == IndexOf(input, SEMI, cursor)
             nextNewline == IndexOf(input, LF, cursor)
         IN  IF nextDelim # 0 /\ (nextDelim < nextNewline \/ nextNewline = 0)
             THEN PapaLoop(input, nextDelim + 1,
                           Append(row, SubSeq(input, cursor, nextDelim - 1)), rows)
             ELSE IF nextNewline # 0
             THEN PapaLoop(input, nextNewline + 1, <<>>,
                           Append(rows, Append(row, SubSeq(input, cursor, nextNewline - 1))))
             ELSE Append(rows, Append(row, SubSeq(input, cursor, Len(input))))

\* the search for the closing quote of the field that starts at cursor;
\* quoteSearch is the last quote looked at
PapaQuoted(input, cursor, quoteSearch, row, rows) ==
    LET q == IndexOf(input, QUOTE, quoteSearch + 1)
    IN  IF q = 0
        THEN Append(rows, Append(row, SubSeq(input, cursor, Len(input))))
        ELSE IF q = Len(input)
        THEN Append(rows, Append(row, UnescapeQuotes(SubSeq(input, cursor, q - 1))))
        ELSE IF input[q + 1] = QUOTE
        THEN PapaQuoted(input, cursor, q + 1, row, rows)
        ELSE LET nextDelim   == IndexOf(input, SEMI, q + 1)
                 nextNewline == IndexOf(input, LF, q + 1)
                 checkUpTo   == IF nextNewline = 0 THEN nextDelim
                                ELSE Min(nextDelim, nextNewline)
                 spacesD     == ExtraSpaces(input, q, checkUpTo)
                 spacesN     == ExtraSpaces(input, q, nextNewline)
                 fieldText   == UnescapeQuotes(SubSeq(input, cursor, q - 1))
                 at(i)       == IF i <= Len(input) THEN <<input[i]>> ELSE <<>>
             IN  IF at(q + 1 + spacesD) = <<SEMI>>
                 THEN PapaLoop(input, q + 1 + spacesD + 1, Append(row, fieldText), rows)
                 ELSE IF at(q + 1 + spacesN) = <<LF>>
                 THEN PapaLoop(input, q + 1 + spacesN + 1, <<>>,
                               Append(rows, Append(row, fieldText)))
                 ELSE PapaQuoted(input, cursor, q, row, rows)

PapaRows(input) ==
    IF IndexOf(input, QUOTE, 1) = 0
    THEN LET lines == SplitOn(input, LF)
         IN  [i \in 1..Len(lines) |-> SplitOn(lines[i], SEMI)]
    ELSE PapaLoop(input, 1, <<>>, <<>>)

\* testEmptyLine for skipEmptyLines: true
PapaNotEmptyLine(row) == ~(Len(row) = 1 /\ Len(row[1]) = 0)

ParsedExtra == <<"__parsed_extra">>

\* processRow: header names to cells, cells beyond the header collected in
\* the array __parsed_extra, every cell through transform
RECURSIVE PapaObject(_, _, _, _)
PapaObject(fields, row, j, obj) ==
    IF j > Len(row) THEN obj
    ELSE LET cell == Trim(row[j])
         IN  IF j > Len(fields)
             THEN LET had == ObjGet(obj, ParsedExtra)
                      arr == IF had = Undefined THEN <<>> ELSE had[1].items
                  IN  PapaObject(fields, row, j + 1,
                                 ObjSet(obj, ParsedExtra, ArrVal(Append(arr, cell))))
             ELSE PapaObject(fields, row, j + 1, ObjSet(obj, fields[j], StrVal(cell)))

PapaParse(input) ==
    LET data == FilterSeq(PapaRows(input), PapaNotEmptyLine, 1)
    IN  IF data = <<>> THEN <<>>
        ELSE LET fields == [i \in 1..Len(data[1]) |-> Trim(data[1][i])]
             IN  [i \in 1..(Len(data) - 1) |-> PapaObject(fields, data[i + 1], 1, <<>>)]

parseSemicolonRecordsBrowser(sectionText) ==
    IF Len(Trim(sectionText)) = 0 THEN Returned(<<>>)
    ELSE Returned(PapaParse(sectionText))

FirstRecordOffByOne(records) == IF Len(records) >= 2 THEN Some(records[2]) ELSE Undefined

\* metaRecords[0]
FirstRecord(records) == IF Len(records) >= 1 THEN Some(records[1]) ELSE Undefined

\* the outcome of a whole call: <<>> when an exception propagates
parseCsvText(f, t) ==
    LET s == splitMetaAndTests(f, t)
        m == parseSemicolonRecords(s.metaSectionText)
        r == parseSemicolonRecords(s.testsSectionText)
    IN  IF m.threw \/ r.threw THEN <<>>
        ELSE <<normalizeParsedData(f, FirstRecord(m.records), r.records, s.warnings)>>

\* (the locals s, m, r are bound once each, as the const declarations are)
parseCsvTextBrowser(f, t) ==
    CHOOSE out \in UNION {
        { <<normalizeParsedData(f, FirstRecord(m.records), r.records, s.warnings)>> :
              m \in {parseSemicolonRecordsBrowser(s.metaSectionText)},
              r \in {parseSemicolonRecordsBrowser(s.testsSectionText)} } :
        s \in {splitMetaAndTests(f, t)} } : TRUE

(***************************************************************************)
(* App.tsx: the component App (its state that decides the File-view table)  *)
(* app is the record of the useState cells files, activeFileId,             *)
(* selectedTsNames, isFilterModalOpen and draftSelection; an id of a loaded *)
(* file is its position in files (the source builds it from Date.now(), the *)
(* index and the name).  A Set is the sequence of its elements in insertion *)
(* order, which is what Array.from gives back.                              *)
(***************************************************************************)
Range(seq) == {seq[i] : i \in 1..Len(seq)}

\* Array.from(new Set(seq))
RECURSIVE Unique(_)
Unique(seq) ==
    IF seq = <<>> THEN <<>>
    ELSE LET front == Unique(SubSeq(seq, 1, Len(seq) - 1))
             last == seq[Len(seq)]
         IN  IF last \in Range(front) THEN front ELSE Append(front, last)

\* useState initial values
AppIdle ==
    [files |-> <<>>, activeFileId |-> Null, selectedTsNames |-> <<>>,
     isFilterModalOpen |-> FALSE, draftSelection |-> <<>>]

isNumericValueTest(test) == test.value # Null

\* test.tsName?.trim() ?? ''
getNormalizedTsName(test) ==
    IF test.tsName = Undefined THEN <<>> ELSE Trim(test.tsName[1])

\* file.parsed.tests.filter(isNumericValueTest).map(getNormalizedTsName)
\*     .filter((tsName) => tsName.length > 0)
NumericTsNamesOf(file) ==
    LET numeric == SelectSeq(file.parsed.tests, isNumericValueTest)
        names == [i \in 1..Len(numeric) |-> getNormalizedTsName(numeric[i])]
    IN  SelectSeq(names, LAMBDA tsName : Len(tsName) > 0)

RECURSIVE FlatNumericTsNames(_)
FlatNumericTsNames(files) ==
    IF files = <<>> THEN <<>>
    ELSE FlatNumericTsNames(SubSeq(files, 1, Len(files) - 1))
             \o NumericTsNamesOf(files[Len(files)])

collectUniqueNumericTsNames(files) == Unique(FlatNumericTsNames(files))

\* files.find((file) => file.id === activeFileId) ?? null
activeFile ==
    LET at == {i \in 1..Len(app.files) : Some(app.files[i].id) = app.activeFileId}
    IN  IF at = {} THEN Null ELSE Some(app.files[CHOOSE i \in at : \A j \in at : i <= j])

allTsNames == collectUniqueNumericTsNames(app.files)

numericTests ==
    SelectSeq(IF activeFile = Null THEN <<>> ELSE activeFile[1].parsed.tests,
              isNumericValueTest)

\* the rows the File-view table renders
filteredNumericTests ==
    SelectSeq(numericTests,
              LAMBDA test : /\ Len(getNormalizedTsName(test)) > 0
                            /\ getNormalizedTsName(test) \in Range(app.selectedTsNames))

(***************************************************************************)
(* Bounds and the inputs drawn                                             *)
(***************************************************************************)
MaxLines == 6        \* lines of a file handed to parseCsvText
MaxChars == 6        \* characters of a text handed to splitMetaAndTests alone
MaxSplitLines == 5   \* lines of a text of whole lines handed to splitMetaAndTests alone
MaxRecords == 3      \* test records handed to normalizeParsedData alone
MaxNum == 2          \* computeInLimit is tried on -MaxNum..MaxNum and null
MaxCalls == 3        \* calls whose results one caller holds
MaxDigits == 4       \* characters of a string handed to toNumberOrNull alone
MaxTrailLines == 5   \* lines of a file parsed with and without added line terminators
MaxTrail == 2        \* line terminators added after a text
MaxFiles == 3        \* files the component App has loaded or is loading

FileNames == {<<"a.csv">>, <<"b.csv">>}

\* the first line of a file: blank, a metadata header, a line with an
\* unclosed quote
HeaderLineSet ==
    { <<>>,
      <<"SerialNumber", SEMI, "Result", SEMI, "Station">>,
      <<QUOTE, "SN1">> }

\* the second line of a file: blank, a metadata value row one cell short
\* with a padded cell
ValueLineSet ==
    { <<>>,
      <<"SN1", SEMI, SP, "Pass">> }

TestHeaderLine ==
    <<"TsName", SEMI, "LowerLimit", SEMI, "Value", SEMI, "PassFail", SEMI, "Status">>

\* the third line of a file: blank, a test header, a numeric row
SeparatorLineSet ==
    { <<>>,
      TestHeaderLine,
      <<"T1", SEMI, "1", SEMI, "5", SEMI, "Pass", SEMI, "Passed">> }

\* the later lines of a file: blank, a test header, a numeric row, a row
\* with blank cells, PassFail=Fail, Status=Skipped and one cell too many, a
\* short row with an unclosed quote, a row of two blank cells
BodyLineSet ==
    { <<>>,
      TestHeaderLine,
      <<"T1", SEMI, "1", SEMI, "5", SEMI, "Pass", SEMI, "Passed">>,
      <<"T2", SEMI, SEMI, SEMI, "Fail", SEMI, "Skipped", SEMI, "extra">>,
      <<"T3", SEMI, "1", SEMI, QUOTE, "0">>,
      <<SEMI>> }

LinesAt(i) ==
    CASE i = 1 -> HeaderLineSet
      [] i = 2 -> ValueLineSet
      [] i = 3 -> SeparatorLineSet
      [] OTHER -> BodyLineSet

\* the files of exactly n lines
RECURSIVE LineSeqs(_)
LineSeqs(n) ==
    IF n = 0 THEN {<<>>}
    ELSE {Append(ls, l) : ls \in LineSeqs(n - 1), l \in LinesAt(n)}

Files == UNION {LineSeqs(n) : n \in 0..MaxLines}

\* every text of at most n characters over the alphabet
RECURSIVE CharSeqs(_, _)
CharSeqs(alphabet, n) ==
    IF n = 0 THEN {<<>>}
    ELSE LET shorter == CharSeqs(alphabet, n - 1)
         IN  shorter \cup {Append(t, c) : t \in {u \in shorter : Len(u) = n - 1},
                                          c \in alphabet}

SplitAlphabet == {LF, CR, SP, BOM, "a"}

\* the sequences over S of exactly n elements
RECURSIVE SeqsOf(_, _)
SeqsOf(S, n) ==
    IF n = 0 THEN {<<>>}
    ELSE {Append(q, x) : q \in SeqsOf(S, n - 1), x \in S}

\* lines of the texts handed to splitMetaAndTests alone: empty, a space, a
\* letter
SplitLineSet == {<<>>, <<SP>>, <<"a">>}

\* the texts of at most MaxSplitLines such lines
SplitFiles == {Join(ls, LF) : ls \in UNION {SeqsOf(SplitLineSet, n) : n \in 0..MaxSplitLines}}

OptNums == {Null} \cup {Some(n) : n \in (0 - MaxNum)..MaxNum}

NoSplit == <<>>
NoResult == <<>>

(***************************************************************************)
(* The calls                                                               *)
(***************************************************************************)
LimitIdle ==
    /\ value = Null /\ lower = Null /\ upper = Null /\ inLimit = <<>>

\* parseCsvText / parseCsvTextBrowser are entered with (fileName, text)
Init ==
    /\ pc = "start"
    /\ fileName = <<"a.csv">>
    /\ \E ls \in Files, bom \in BOOLEAN :
           text = (IF bom THEN <<BOM>> ELSE <<>>) \o Join(ls, LF)
    /\ locals = <<>>
    /\ split = NoSplit
    /\ metaRecords = <<>>
    /\ testRecords = <<>>
    /\ parser = ""
    /\ result = NoResult
    /\ parsedFiles = <<>>
    /\ rawCell = Undefined
    /\ app = AppIdle
    /\ loads = <<>>
    /\ LimitIdle

\* const { metaSectionText, testsSectionText, warnings } = splitMetaAndTests(fileName, text)
SplitMetaAndTests ==
    /\ pc = "start"
    /\ locals' = Some(SplitLocals(fileName, text))
    /\ split' = Some(SplitReturn(SplitLocals(fileName, text)))
    /\ pc' = "split"
    /\ UNCHANGED <<fileName, text, metaRecords, testRecords, parser, result,
                   value, lower, upper, inLimit, parsedFiles, rawCell, app, loads>>

\* parseCsvText: the two calls of parseSemicolonRecords; an exception of
\* csv-parse propagates out of parseCsvText
ParseSemicolonRecords ==
    /\ pc = "split"
    /\ parser' = "node"
    /\ LET m == parseSemicolonRecords(split[1].metaSectionText)
           r == parseSemicolonRecords(split[1].testsSectionText)
       IN  IF m.threw \/ r.threw
           THEN /\ pc' = "thrown"
                /\ UNCHANGED <<metaRecords, testRecords>>
           ELSE /\ pc' = "parsed"
                /\ metaRecords' = m.records
                /\ testRecords' = r.records
    /\ UNCHANGED <<fileName, text, locals, split, result, value, lower, upper, inLimit, parsedFiles, rawCell, app, loads>>

\* parseCsvTextBrowser: the two calls of parseSemicolonRecordsBrowser
ParseSemicolonRecordsBrowser ==
    /\ pc = "split"
    /\ parser' = "browser"
    /\ metaRecords' = parseSemicolonRecordsBrowser(split[1].metaSectionText).records
    /\ testRecords' = parseSemicolonRecordsBrowser(split[1].testsSectionText).records
    /\ pc' = "parsed"
    /\ UNCHANGED <<fileName, text, locals, split, result, value, lower, upper, inLimit, parsedFiles, rawCell, app, loads>>

\* normalizeParsedData with inLimit taken from the vendor verdict
NormalizeParsedDataVendorVerdict ==
    /\ pc = "parsed"
    /\ LET r == normalizeParsedData(fileName, FirstRecord(metaRecords), testRecords,
                                    split[1].warnings)
       IN  result' = Some([r EXCEPT !.tests =
                              [k \in 1..Len(r.tests) |->
                                  IF r.tests[k].passFail = Some(<<"Fail">>)
                                  THEN [r.tests[k] EXCEPT !.inLimit = Some(FALSE)]
                                  ELSE r.tests[k]]])
    /\ pc' = "done"
    /\ UNCHANGED <<fileName, text, locals, split, metaRecords, testRecords, parser,
                   value, lower, upper, inLimit, parsedFiles, rawCell, app, loads>>

\* normalizeParsedData with a warnings list that outlives the call
NormalizeParsedDataSharedWarnings ==
    /\ pc = "parsed"
    /\ result' = Some(normalizeParsedData(fileName, FirstRecord(metaRecords), testRecords,
                           (IF result = NoResult THEN <<>> ELSE result[1].warnings)
                               \o split[1].warnings))
    /\ pc' = "done"
    /\ UNCHANGED <<fileName, text, locals, split, metaRecords, testRecords, parser,
                   value, lower, upper, inLimit, parsedFiles, rawCell, app, loads>>

\* return normalizeParsedData(fileName, metaRecords[0], testRecords, warnings)
NormalizeParsedData ==
    /\ pc = "parsed"
    /\ result' = Some(normalizeParsedData(fileName, FirstRecord(metaRecords),
                                          testRecords, split[1].warnings))
    /\ pc' = "done"
    /\ UNCHANGED <<fileName, text, locals, split, metaRecords, testRecords, parser,
                   value, lower, upper, inLimit, parsedFiles, rawCell, app, loads>>

Next ==
    \/ SplitMetaAndTests
    \/ ParseSemicolonRecords
    \/ ParseSemicolonRecordsBrowser
    \/ NormalizeParsedData

Spec == Init /\ [][Next]_vars

\* the same calls on the files of at most MaxTrailLines lines, for the
\* comparison with the parses of their texts with line terminators added
InitTrail ==
    /\ pc = "start"
    /\ fileName = <<"a.csv">>
    /\ \E ls \in UNION {LineSeqs(n) : n \in 0..MaxTrailLines}, bom \in BOOLEAN :
           text = (IF bom THEN <<BOM>> ELSE <<>>) \o Join(ls, LF)
    /\ locals = <<>>
    /\ split = NoSplit
    /\ metaRecords = <<>>
    /\ testRecords = <<>>
    /\ parser = ""
    /\ result = NoResult
    /\ parsedFiles = <<>>
    /\ rawCell = Undefined
    /\ app = AppIdle
    /\ loads = <<>>
    /\ LimitIdle

SpecTrail == InitTrail /\ [][Next]_vars

(***************************************************************************)
(* Several files parsed one after the other by one caller, which keeps     *)
(* what each call returned.  A call runs to its end before the next        *)
(* starts; the locals of a call are whatever the previous call left until  *)
(* the call assigns them.                                                  *)
(***************************************************************************)
\* the texts of the files parsed in turn: a file whose only data row is
\* Fail/Skipped, and a single line with an unclosed quote
CallTexts ==
    { Join(<< <<"SerialNumber", SEMI, "Result", SEMI, "Station">>,
              <<"SN1", SEMI, SP, "Pass">>,
              <<>>,
              TestHeaderLine,
              <<"T2", SEMI, SEMI, SEMI, "Fail", SEMI, "Skipped", SEMI, "extra">> >>, LF),
      <<QUOTE, "SN1">> }

InitCalls ==
    /\ pc = "start"
    /\ fileName \in FileNames
    /\ text \in CallTexts
    /\ locals = <<>>
    /\ split = NoSplit
    /\ metaRecords = <<>>
    /\ testRecords = <<>>
    /\ parser = ""
    /\ result = NoResult
    /\ parsedFiles = <<>>
    /\ rawCell = Undefined
    /\ app = AppIdle
    /\ loads = <<>>
    /\ LimitIdle

\* the call has ended: the caller keeps what it returned (nothing when it
\* threw) and parses the next file
NextCall ==
    /\ pc \in {"done", "thrown"}
    /\ Len(parsedFiles) < MaxCalls
    /\ parsedFiles' = Append(parsedFiles,
                             [parser |-> parser, fileName |-> fileName, text |-> text,
                              parsed |-> IF pc = "thrown" THEN NoResult ELSE result])
    /\ pc' = "start"
    /\ fileName' \in FileNames
    /\ text' \in CallTexts
    /\ UNCHANGED <<locals, split, metaRecords, testRecords, parser, result,
                   value, lower, upper, inLimit, rawCell, app, loads>>

NextCalls ==
    \/ Next
    \/ NextCall

SpecCalls == InitCalls /\ [][NextCalls]_vars

(***************************************************************************)
(* splitMetaAndTests called alone, on every short text over line           *)
(* terminators, blanks, the byte order mark and a letter, and on longer    *)
(* texts of whole lines                                                    *)
(***************************************************************************)
InitSplit ==
    /\ pc = "start"
    /\ fileName \in FileNames
    /\ text \in CharSeqs(SplitAlphabet, MaxChars) \cup SplitFiles
    /\ locals = <<>>
    /\ split = NoSplit
    /\ metaRecords = <<>>
    /\ testRecords = <<>>
    /\ parser = ""
    /\ result = NoResult
    /\ parsedFiles = <<>>
    /\ rawCell = Undefined
    /\ app = AppIdle
    /\ loads = <<>>
    /\ LimitIdle

SpecSplit == InitSplit /\ [][SplitMetaAndTests]_vars

(***************************************************************************)
(* normalizeParsedData called alone, on records as a record parser may     *)
(* hand them over                                                          *)
(***************************************************************************)
Cell(name, s) == [k |-> <<name>>, v |-> StrVal(s)]

RecordSet ==
    { \* a numeric row inside both limits
      << Cell("TsName", <<"T1">>), Cell("LowerLimit", <<"1">>),
         Cell("UpperLimit", <<"1", "0">>), Cell("Value", <<"5">>),
         Cell("Skipped", <<"false">>), Cell("PassFail", <<"Pass">>),
         Cell("Status", <<"Passed">>), Cell("TestTime", <<"3">>) >>,
      \* the same row with the vendor verdict Fail on a skipped test
      << Cell("TsName", <<"T1">>), Cell("LowerLimit", <<"1">>),
         Cell("UpperLimit", <<"1", "0">>), Cell("Value", <<"5">>),
         Cell("Skipped", <<"false">>), Cell("PassFail", <<"Fail">>),
         Cell("Status", <<"Skipped">>), Cell("TestTime", <<"3">>) >>,
      \* only a lower limit, the value below it
      << Cell("TsName", <<"T2">>), Cell("LowerLimit", <<"1">>),
         Cell("UpperLimit", <<>>), Cell("Value", <<"0">>),
         Cell("Skipped", <<SP, "TRUE">>), Cell("PassFail", <<"Fail">>),
         Cell("Status", <<"Failed">>), Cell("TestTime", <<"x">>) >>,
      \* blank value and limits, vendor verdict Fail on a skipped test, both
      \* padded
      << Cell("TsName", <<"T3">>), Cell("LowerLimit", <<>>),
         Cell("UpperLimit", <<SP>>), Cell("Value", <<>>),
         Cell("Skipped", <<"yes">>), Cell("PassFail", <<SP, "Fail">>),
         Cell("Status", <<"Skipped", SP>>), Cell("TestTime", <<>>) >>,
      \* text where numbers are expected, vendor verdict in lower case
      << Cell("TsName", <<"T4">>), Cell("LowerLimit", <<"N/A">>),
         Cell("UpperLimit", <<"2">>), Cell("Value", <<"(", ")">>),
         Cell("Skipped", <<>>), Cell("PassFail", <<"fail">>),
         Cell("Status", <<"Skipped">>) >>,
      \* a short row: only an upper limit, the value on it, and a test time
      \* written as a hexadecimal literal
      << Cell("TsName", <<>>), Cell("UpperLimit", <<"-", "5">>),
         Cell("Value", <<"-", "5">>), Cell("TestTime", <<"0", "x", "1", "F">>) >>,
      \* every cell blank
      << Cell("TsName", <<>>), Cell("Value", <<SP>>), Cell("PassFail", <<>>) >>,
      \* untrimmed and empty header names, cells beyond the header
      << [k |-> <<SP, "Value", SP>>, v |-> StrVal(<<SP, "7">>)],
         [k |-> <<SP>>, v |-> StrVal(<<"junk">>)],
         [k |-> ParsedExtra, v |-> ArrVal(<< <<"x">>, <<"y">> >>)] >> }

MetaRecordSet ==
    { << Cell("SerialNumber", <<"SN1">>), Cell("Result", <<"Pass">>),
         Cell("TestTime", <<"1", "2">>), Cell("Operator", <<"bob">>) >>,
      << [k |-> <<SP, "SerialNumber">>, v |-> StrVal(<<"SN2", SP>>)],
         [k |-> <<>>, v |-> StrVal(<<"junk">>)],
         Cell("SitesNumber", <<"many">>) >> }

InitNormalize ==
    /\ pc = "parsed"
    /\ fileName \in FileNames
    /\ text = <<>>
    /\ locals = <<>>
    /\ \E w \in {<<>>, <<WarnNoSeparator(fileName)>>} :
           split = Some([metaSectionText |-> <<>>, testsSectionText |-> <<>>,
                         warnings |-> w])
    /\ metaRecords \in {<<>>} \cup {<<m>> : m \in MetaRecordSet}
    /\ testRecords \in UNION {SeqsOf(RecordSet, n) : n \in 0..MaxRecords}
    /\ parser = ""
    /\ result = NoResult
    /\ parsedFiles = <<>>
    /\ rawCell = Undefined
    /\ app = AppIdle
    /\ loads = <<>>
    /\ LimitIdle

SpecNormalize == InitNormalize /\ [][NormalizeParsedData]_vars

(***************************************************************************)
(* computeInLimit called alone                                             *)
(***************************************************************************)
InitLimit ==
    /\ pc = "limit"
    /\ fileName = <<>>
    /\ text = <<>>
    /\ locals = <<>>
    /\ split = NoSplit
    /\ metaRecords = <<>>
    /\ testRecords = <<>>
    /\ parser = ""
    /\ result = NoResult
    /\ parsedFiles = <<>>
    /\ rawCell = Undefined
    /\ app = AppIdle
    /\ loads = <<>>
    /\ value \in OptNums
    /\ lower \in OptNums
    /\ upper \in OptNums
    /\ inLimit = <<>>

ComputeInLimit ==
    /\ pc = "limit"
    /\ inLimit' = Some(computeInLimit(value, lower, upper))
    /\ pc' = "limit-done"
    /\ UNCHANGED <<fileName, text, locals, split, metaRecords, testRecords, parser, result,
                   value, lower, upper, parsedFiles, rawCell, app, loads>>

SpecLimit == InitLimit /\ [][ComputeInLimit]_vars

(***************************************************************************)
(* toNumberOrNull called alone, on undefined, on every short string over   *)
(* digits, signs, point, exponent and radix letters and blanks, and on a   *)
(* few longer strings                                                      *)
(***************************************************************************)
NumberAlphabet == {"0", "1", "-", "+", ".", "e", "x", "b", SP}

NumberWords ==
    { <<"0", "x", "1", "F">>, <<"0", "o", "1", "7">>, <<"Infinity">>,
      <<"-", "Infinity">>, <<"NaN">>, <<"N/A">>, <<"(", ")">>,
      <<"1", COMMA, "5">>, <<SP, "1", ".", "5", "e", "1", SP>> }

InitNumber ==
    /\ pc = "number"
    /\ fileName = <<>>
    /\ text = <<>>
    /\ locals = <<>>
    /\ split = NoSplit
    /\ metaRecords = <<>>
    /\ testRecords = <<>>
    /\ parser = ""
    /\ result = NoResult
    /\ parsedFiles = <<>>
    /\ rawCell \in {Undefined} \cup {Some(s) : s \in CharSeqs(NumberAlphabet, MaxDigits) \cup NumberWords}
    /\ app = AppIdle
    /\ loads = <<>>
    /\ LimitIdle

\* toNumberOrNull(raw) returns
ToNumberOrNull ==
    /\ pc = "number"
    /\ value' = toNumberOrNull(rawCell)
    /\ pc' = "number-done"
    /\ UNCHANGED <<fileName, text, locals, split, metaRecords, testRecords, parser, result,
                   lower, upper, inLimit, parsedFiles, rawCell, app, loads>>

SpecNumber == InitNumber /\ [][ToNumberOrNull]_vars

(***************************************************************************)
(* The component App alone: files are loaded and picked, the measurement   *)
(* filter is opened, edited, applied or closed                             *)
(***************************************************************************)
ViewMetaLines ==
    << <<"SerialNumber", SEMI, "Result", SEMI, "Station">>,
       <<"SN1", SEMI, SP, "Pass">>,
       <<>> >>

\* the files picked: numeric rows named T1, with a blank name and, a cell
\* short, with no name, and a row that is not numeric; numeric rows T1 and T3
ViewTexts ==
    { Join(ViewMetaLines \o << <<"Value", SEMI, "TsName">>,
                               <<"1", SEMI, "T1">>,
                               <<"2", SEMI>>,
                               <<"3">>,
                               <<"x", SEMI, "T2">> >>, LF),
      Join(ViewMetaLines \o << <<"Value", SEMI, "TsName">>,
                               <<"2", SEMI, "T1">>,
                               <<"1", SEMI, "T3">> >>, LF) }

\* the name the files picked go by
ViewFileNames == {<<"a.csv">>}

InitView ==
    /\ pc = "app"
    /\ fileName = <<>>
    /\ text = <<>>
    /\ locals = <<>>
    /\ split = NoSplit
    /\ metaRecords = <<>>
    /\ testRecords = <<>>
    /\ parser = ""
    /\ result = NoResult
    /\ parsedFiles = <<>>
    /\ rawCell = Undefined
    /\ LimitIdle
    /\ app = AppIdle
    /\ loads = <<>>

ViewUnchanged ==
    UNCHANGED <<pc, fileName, text, locals, split, metaRecords, testRecords, parser,
                result, value, lower, upper, inLimit, parsedFiles, rawCell>>

\* parseCsvTextBrowser(file.name, text) for every file that can be picked,
\* as pairs of the arguments and the ParsedCsvFile returned
ViewParsed ==
    { <<picked, parseCsvTextBrowser(picked[1], picked[2])[1]>> :
          picked \in ViewFileNames \X ViewTexts }

ParsedOf(picked) == (CHOOSE p \in ViewParsed : p[1] = picked)[2]

\* what Promise.all resolves to: one LoadedCsvFile for each file picked, in
\* the order picked; known is the number of files loaded before
RECURSIVE LoadFiles(_, _)
LoadFiles(selectedFiles, known) ==
    IF selectedFiles = <<>> THEN <<>>
    ELSE LET n == Len(selectedFiles)
         IN  Append(LoadFiles(SubSeq(selectedFiles, 1, n - 1), known),
                    [id |-> known + n,
                     fileName |-> selectedFiles[n][1],
                     parsed |-> ParsedOf(selectedFiles[n])])

AppendLoadedOnly(previous, loaded) == loaded

\* const next = [...previous, ...parsedFiles]
AppendLoaded(previous, loaded) == previous \o loaded

\* the files picked by the calls of handleFilesSelected that wait
RECURSIVE PickedFiles(_)
PickedFiles(waiting) ==
    IF waiting = <<>> THEN 0
    ELSE Len(waiting[1].selectedFiles) + PickedFiles(Tail(waiting))

\* handleFilesSelected up to its await, with a non-empty selection (an empty
\* one returns at once): the call keeps the files picked and the files and
\* activeFileId of the render its closure was made in
HandleFilesSelected ==
    /\ pc = "app"
    /\ \E n \in 1..(MaxFiles - Len(app.files) - PickedFiles(loads)) :
       \E selectedFiles \in SeqsOf(ViewFileNames \X ViewTexts, n) :
           loads' = Append(loads, [selectedFiles |-> selectedFiles,
                                   files |-> app.files,
                                   activeFileId |-> app.activeFileId])
    /\ UNCHANGED app
    /\ ViewUnchanged

\* handleFilesSelected from its await on, for any call that waits: every
\* file is parsed, the files are appended to the files of now, the first
\* file becomes active when the closure saw none active, the numeric names
\* the closure's files did not have are selected
FilesParsed ==
    /\ pc = "app"
    /\ \E c \in 1..Len(loads) :
       \E loaded \in {LoadFiles(loads[c].selectedFiles, Len(app.files))} :
           LET knownTsNames == collectUniqueNumericTsNames(loads[c].files)
               newTsNames == collectUniqueNumericTsNames(loaded)
               next == AppendLoaded(app.files, loaded)
           IN  /\ app' = [app EXCEPT
                             !.files = next,
                             !.activeFileId =
                                 IF loads[c].activeFileId = Null /\ Len(next) > 0
                                 THEN Some(next[1].id) ELSE app.activeFileId,
                             !.selectedTsNames =
                                 Unique(app.selectedTsNames
                                        \o SelectSeq(newTsNames,
                                                     LAMBDA tsName :
                                                         tsName \notin Range(knownTsNames)))]
               /\ loads' = [i \in 1..(Len(loads) - 1) |->
                               IF i < c THEN loads[i] ELSE loads[i + 1]]
    /\ ViewUnchanged

\* onClick of a button of the file list
SetActiveFileId ==
    /\ pc = "app"
    /\ \E i \in 1..Len(app.files) :
           /\ Some(app.files[i].id) # app.activeFileId
           /\ app' = [app EXCEPT !.activeFileId = Some(app.files[i].id)]
    /\ UNCHANGED loads
    /\ ViewUnchanged

openFilterModalKeepDraft ==
    /\ pc = "app"
    /\ ~app.isFilterModalOpen
    /\ app' = [app EXCEPT !.isFilterModalOpen = TRUE]
    /\ UNCHANGED loads
    /\ ViewUnchanged

openFilterModal ==
    /\ pc = "app"
    /\ ~app.isFilterModalOpen
    /\ app' = [app EXCEPT
                  !.draftSelection = SelectSeq(app.selectedTsNames,
                                               LAMBDA tsName : tsName \in Range(allTsNames)),
                  !.isFilterModalOpen = TRUE]
    /\ UNCHANGED loads
    /\ ViewUnchanged

\* onChange of the checkbox of a listed name (no search text: every name is
\* listed)
ToggleDraft ==
    /\ pc = "app"
    /\ app.isFilterModalOpen
    /\ \E tsName \in Range(allTsNames) :
           app' = [app EXCEPT
                      !.draftSelection =
                          IF tsName \notin Range(app.draftSelection)
                          THEN Append(app.draftSelection, tsName)
                          ELSE SelectSeq(app.draftSelection,
                                         LAMBDA item : item # tsName)]
    /\ UNCHANGED loads
    /\ ViewUnchanged

\* All On
AllOn ==
    /\ pc = "app"
    /\ app.isFilterModalOpen
    /\ app.draftSelection # allTsNames
    /\ app' = [app EXCEPT !.draftSelection = allTsNames]
    /\ UNCHANGED loads
    /\ ViewUnchanged

\* All Off
AllOff ==
    /\ pc = "app"
    /\ app.isFilterModalOpen
    /\ app.draftSelection # <<>>
    /\ app' = [app EXCEPT !.draftSelection = <<>>]
    /\ UNCHANGED loads
    /\ ViewUnchanged

applyDraftSelection ==
    /\ pc = "app"
    /\ app.isFilterModalOpen
    /\ app' = [app EXCEPT
                  !.selectedTsNames = SelectSeq(app.draftSelection,
                                                LAMBDA tsName : tsName \in Range(allTsNames)),
                  !.isFilterModalOpen = FALSE]
    /\ UNCHANGED loads
    /\ ViewUnchanged

closeFilterModal ==
    /\ pc = "app"
    /\ app.isFilterModalOpen
    /\ app' = [app EXCEPT !.isFilterModalOpen = FALSE]
    /\ UNCHANGED loads
    /\ ViewUnchanged

NextView ==
    \/ HandleFilesSelected
    \/ FilesParsed
    \/ SetActiveFileId
    \/ openFilterModal
    \/ ToggleDraft
    \/ AllOn
    \/ AllOff
    \/ applyDraftSelection
    \/ closeFilterModal

SpecView == InitView /\ [][NextView]_vars

(***************************************************************************)
(* Properties                                                              *)
(***************************************************************************)
Returned1 == result[1]

\* C1: for every input (fileName, text), stray or unbalanced quotes and
\* ragged rows included, parseCsvText and parseCsvTextBrowser return
\* normally: no exception propagates and a result with meta, tests and
\* warnings is returned.
C1_ParseNeverThrows ==
    /\ pc # "thrown"
    /\ pc = "done" => result # NoResult

\* C2: computeInLimit returns null when value is null or both bounds are
\* null; otherwise true exactly when value >= lower (if present) and
\* value <= upper (if present), bounds inclusive, and false otherwise.
C2_ComputeInLimit ==
    pc = "limit-done" =>
        inLimit[1] =
            IF value = Null \/ (lower = Null /\ upper = Null) THEN Null
            ELSE Some(/\ (lower = Null \/ value[1] >= lower[1])
                      /\ (upper = Null \/ value[1] <= upper[1]))

\* C2 witness: a one-sided lower bound met exactly at the boundary
C2_Witness ==
    /\ pc = "limit-done"
    /\ value # Null /\ lower # Null /\ upper = Null
    /\ value[1] = lower[1]
    /\ inLimit[1] = Some(TRUE)

\* C3: every TestRow returned by normalizeParsedData has isNumericValue true
\* exactly when value is not null, hasAnyLimit true exactly when a limit is
\* not null, and inLimit null exactly when value is null or hasAnyLimit is
\* false.
C3_DerivedFields ==
    pc = "done" =>
        \A i \in 1..Len(Returned1.tests) :
            LET row == Returned1.tests[i]
            IN  /\ row.isNumericValue = (row.value # Null)
                /\ row.hasAnyLimit = (row.lowerLimit # Null \/ row.upperLimit # Null)
                /\ (row.inLimit = Null) = (row.value = Null \/ ~row.hasAnyLimit)

\* C3 witness: one result with an evaluable row (one-sided limit) and a row
\* that is numeric but has no limit
C3_Witness ==
    /\ pc = "done"
    /\ \E i, j \in 1..Len(Returned1.tests) :
           /\ Returned1.tests[i].inLimit = Some(FALSE)
           /\ Returned1.tests[i].upperLimit = Null
           /\ Returned1.tests[j].value # Null
           /\ ~Returned1.tests[j].hasAnyLimit
           /\ Returned1.tests[j].inLimit = Null

\* the text as a sequence of lines, a leading byte order mark apart
InputText == IF Len(text) >= 1 /\ text[1] = BOM THEN Tail(text) ELSE text

InputLines == SplitOn(InputText, LF)

NoQuotes == \A i \in 1..Len(text) : text[i] # QUOTE

\* the cells of a line without quotes, each trimmed
TrimmedCells(line) ==
    LET cells == SplitOn(line, SEMI)
    IN  [j \in 1..Len(cells) |-> Trim(cells[j])]

\* a header line names every one of its columns, each once
IsHeaderLine(line) ==
    LET h == TrimmedCells(line)
    IN  /\ \A j \in 1..Len(h) : h[j] # <<>>
        /\ \A j, k \in 1..Len(h) : j # k => h[j] # h[k]

\* the cell of the row under the column of that name, when there is one
CellUnder(header, row, name) ==
    LET h == TrimmedCells(header)
        r == TrimmedCells(row)
        at == {j \in 1..Len(h) : h[j] = name /\ j <= Len(r)}
    IN  IF at = {} THEN Undefined ELSE Some(r[CHOOSE j \in at : TRUE])

HasNamedNonBlankCell(header, row) ==
    LET h == TrimmedCells(header)
        r == TrimmedCells(row)
    IN  \E j \in 1..Min(Len(h), Len(r)) : r[j] # <<>>

\* a metadata header line, one metadata value line, exactly one blank line,
\* a test header line, then n >= 1 non-blank data rows, no quote characters
WellFormedShape ==
    LET ls == InputLines
    IN  /\ NoQuotes
        /\ Len(ls) >= 5
        /\ IsHeaderLine(ls[1])
        /\ Trim(ls[2]) # <<>>
        /\ Trim(ls[3]) = <<>>
        /\ IsHeaderLine(ls[4])
        /\ \A i \in 5..Len(ls) : Trim(ls[i]) # <<>>

DataRowCount == Len(InputLines) - 4

DataRow(k) == InputLines[k + 4]

\* every data row has a non-blank cell under a named column
DataRowsFilled ==
    \A k \in 1..DataRowCount : HasNamedNonBlankCell(InputLines[4], DataRow(k))

DataRowIsFailSkipped(k) ==
    /\ CellUnder(InputLines[4], DataRow(k), <<"PassFail">>) = Some(<<"Fail">>)
    /\ CellUnder(InputLines[4], DataRow(k), <<"Status">>) = Some(<<"Skipped">>)

\* the Fail/Skipped warnings of the first k data rows, in row order; the
\* k-th data row is reported as row k + 1
RECURSIVE FailSkippedWarnings(_)
FailSkippedWarnings(k) ==
    IF k = 0 THEN <<>>
    ELSE FailSkippedWarnings(k - 1) \o
         (IF DataRowIsFailSkipped(k)
          THEN << fileName \o <<": row ">> \o NumberToString(k + 1)
                           \o <<" has PassFail=Fail with Status=Skipped.">> >>
          ELSE <<>>)

\* tests has one row per data row, in input order, each holding the cells
\* of its data row under the header's names
TestsFollowDataRows ==
    /\ Len(Returned1.tests) = DataRowCount
    /\ \A k \in 1..DataRowCount :
           LET h == TrimmedCells(InputLines[4])
           IN  /\ \A j \in 1..Len(h) :
                      ObjGet(Returned1.tests[k].raw, h[j])
                          = CellUnder(InputLines[4], DataRow(k), h[j])
               /\ Returned1.tests[k].tsName
                      = CellUnder(InputLines[4], DataRow(k), <<"TsName">>)

MetaUnder(name) == CellUnder(InputLines[1], InputLines[2], <<name>>)

\* each typed metadata field of text holds the value under its header name
TypedMetaFollowsHeader ==
    LET meta == Returned1.meta
    IN  /\ meta.serialNumber = MetaUnder("SerialNumber")
        /\ meta.result = MetaUnder("Result")
        /\ meta.detailResult = MetaUnder("DetailResult")
        /\ meta.stationId = MetaUnder("StationID")
        /\ meta.testName = MetaUnder("TestName")
        /\ meta.testDefinitionFile = MetaUnder("TestDefinitionFile")
        /\ meta.testVersion = MetaUnder("TestVersion")
        /\ meta.testDefinitionVersion = MetaUnder("TestDefinitionVersion")
        /\ meta.date = MetaUnder("Date")
        /\ meta.time = MetaUnder("Time")
        /\ meta.serial1 = MetaUnder("Serial1")

\* C4 as stated: for every well-formed input (metadata header line, one
\* metadata value line, exactly one blank line, test header line, n >= 1
\* non-blank data rows, no quotes) the result has an empty warnings list,
\* exactly n tests in input order and typed metadata under its header names.
C4_WellFormedNoWarnings ==
    (pc = "done" /\ WellFormedShape) =>
        /\ Returned1.warnings = <<>>
        /\ TestsFollowDataRows
        /\ TypedMetaFollowsHeader

\* C4 amended: for every well-formed input whose data rows each have a
\* non-blank cell under a named column, parsing returns; the warnings are
\* exactly the Fail/Skipped warnings of the data rows with PassFail=Fail and
\* Status=Skipped, in row order (empty when there is none); tests has exactly
\* n rows in input order; each typed metadata field holds the trimmed value
\* under its header name.
C4_WellFormed ==
    (WellFormedShape /\ DataRowsFilled) =>
        /\ pc # "thrown"
        /\ pc = "done" =>
               /\ Returned1.warnings = FailSkippedWarnings(DataRowCount)
               /\ TestsFollowDataRows
               /\ TypedMetaFollowsHeader

\* C4 witness: a well-formed file of two data rows parsed by csv-parse, the
\* first in limit, the second Fail/Skipped and reported as row 3
C4_Witness ==
    /\ pc = "done" /\ parser = "node"
    /\ WellFormedShape /\ DataRowsFilled
    /\ DataRowCount = 2
    /\ Returned1.meta.serialNumber = Some(<<"SN1">>)
    /\ Returned1.meta.result = Some(<<"Pass">>)
    /\ Returned1.tests[1].inLimit = Some(TRUE)
    /\ DataRowIsFailSkipped(2)
    /\ Len(Returned1.warnings) = 1

\* no blank line of the text is followed by a later non-blank line
NoSeparatorInput ==
    ~ \E i, j \in 1..Len(InputLines) :
          i < j /\ Trim(InputLines[i]) = <<>> /\ Trim(InputLines[j]) # <<>>

\* line 2 is a header and a later line is a data row with a non-blank cell
\* under one of its names
FallbackHasData ==
    /\ Len(InputLines) >= 4
    /\ IsHeaderLine(InputLines[3])
    /\ \E i \in 4..Len(InputLines) : HasNamedNonBlankCell(InputLines[3], InputLines[i])

\* C5: for every input in which no blank line is followed by a later
\* non-blank line, a result is returned whose warnings contain the fallback
\* warning; the metadata lines are line 0 and line 1 (empty when missing);
\* the test section is every line from index 2 on; tests is non-empty when
\* line 2 is a header and a later line is a non-blank data row.
C5_FallbackSplit ==
    NoSeparatorInput =>
        /\ pc # "thrown"
        /\ pc \in {"split", "parsed", "done"} =>
               /\ locals[1].metaLines
                      = << InputLines[1],
                           IF Len(InputLines) >= 2 THEN InputLines[2] ELSE <<>> >>
               /\ locals[1].testLines = SubSeq(InputLines, 3, Len(InputLines))
               /\ split[1].testsSectionText = Join(SubSeq(InputLines, 3, Len(InputLines)), LF)
        /\ pc = "done" =>
               /\ \E i \in 1..Len(Returned1.warnings) :
                      Returned1.warnings[i]
                          = fileName \o <<": no blank separator line found; applied positional fallback split.">>
               /\ FallbackHasData => Len(Returned1.tests) > 0

\* C6: for every text t that does not start with the byte order mark,
\* parsing (fileName, BOM + t) has the outcome of parsing (fileName, t):
\* the same meta, tests and warnings.
C6_BomIgnored ==
    (/\ pc \in {"done", "thrown"}
     /\ Len(text) >= 1 /\ text[1] = BOM
     /\ (Len(text) >= 2 => text[2] # BOM)) =>
        result = IF parser = "node"
                 THEN parseCsvText(fileName, Tail(text))
                 ELSE parseCsvTextBrowser(fileName, Tail(text))

\* C6 witness: a file with a byte order mark before its first header name,
\* parsed by csv-parse; the first raw key is the header name itself
C6_Witness ==
    /\ pc = "done" /\ parser = "node"
    /\ Len(text) >= 2 /\ text[1] = BOM /\ text[2] = "SerialNumber"
    /\ Len(Returned1.meta.raw) >= 1
    /\ Returned1.meta.raw[1].k = <<"SerialNumber">>
    /\ Returned1.meta.serialNumber = Some(<<"SN1">>)
    /\ Len(Returned1.tests) >= 1

\* the trimmed cell of a raw record under the name, when it has one
RecCell(record, name) ==
    LET at == {i \in 1..Len(record) : Trim(record[i].k) = name}
    IN  IF at = {} THEN Undefined
        ELSE Some(Trim(JsString(record[CHOOSE i \in at : \A j \in at : j <= i].v)))

\* the record has a non-blank field under a non-blank name
NonBlankRecord(record) ==
    \E i \in 1..Len(record) :
        /\ Trim(record[i].k) # <<>>
        /\ RecCell(record, Trim(record[i].k)) # Some(<<>>)

\* a base-10 numeral: an optional sign, then digits
IsDecimalNumeral(s) ==
    LET body == IF s # <<>> /\ s[1] \in {"+", "-"} THEN Tail(s) ELSE s
    IN  /\ body # <<>>
        /\ \A i \in 1..Len(body) :
               body[i] \in {"0", "1", "2", "3", "4", "5", "6", "7", "8", "9"}

\* the cell is blank, absent or not a numeral
NotNumericCell(cell) == cell = Undefined \/ ~IsDecimalNumeral(cell[1])

\* the cell is not true or false, whatever the case
NotBooleanCell(cell) ==
    \/ cell = Undefined
    \/ cell[1] \notin { <<"true">>, <<"TRUE">>, <<"True">>,
                        <<"false">>, <<"FALSE">>, <<"False">> }

\* how many of the first i test records have a non-blank field
RECURSIVE NonBlankUpTo(_)
NonBlankUpTo(i) ==
    IF i = 0 THEN 0
    ELSE NonBlankUpTo(i - 1) + (IF NonBlankRecord(testRecords[i]) THEN 1 ELSE 0)

RecordIsFailSkipped(record) ==
    /\ RecCell(record, <<"PassFail">>) = Some(<<"Fail">>)
    /\ RecCell(record, <<"Status">>) = Some(<<"Skipped">>)

FailSkippedCount ==
    Cardinality({i \in 1..Len(testRecords) :
                    NonBlankRecord(testRecords[i]) /\ RecordIsFailSkipped(testRecords[i])})

\* C7: for every test record with a non-blank field, the row appears in
\* tests; a blank, absent or non-numeric LowerLimit, UpperLimit, Value or
\* TestTime cell gives null in the parsed field; a Skipped cell other than
\* true/false gives skipped = null; a blank or non-numeric Value gives
\* isNumericValue = false and inLimit = null; and no warning is added beyond
\* the ones handed in and the Fail/Skipped ones.
C7_InvalidCellsAreNull ==
    pc = "done" =>
        /\ \A i \in 1..Len(testRecords) :
               NonBlankRecord(testRecords[i]) =>
                   /\ NonBlankUpTo(i) <= Len(Returned1.tests)
                   /\ LET r   == testRecords[i]
                          row == Returned1.tests[NonBlankUpTo(i)]
                      IN  /\ NotNumericCell(RecCell(r, <<"LowerLimit">>)) => row.lowerLimit = Null
                          /\ NotNumericCell(RecCell(r, <<"UpperLimit">>)) => row.upperLimit = Null
                          /\ NotNumericCell(RecCell(r, <<"Value">>)) =>
                                 /\ row.value = Null
                                 /\ row.isNumericValue = FALSE
                                 /\ row.inLimit = Null
                          /\ NotNumericCell(RecCell(r, <<"TestTime">>)) => row.testTime = Null
                          /\ NotBooleanCell(RecCell(r, <<"Skipped">>)) => row.skipped = Null
        /\ (\E i \in 1..Len(testRecords) : NonBlankRecord(testRecords[i])) =>
               Len(Returned1.warnings) = Len(split[1].warnings) + FailSkippedCount

\* what a call of the parser on (f, t) alone returns
LoneParse(p, f, t) == IF p = "node" THEN parseCsvText(f, t) ELSE parseCsvTextBrowser(f, t)

\* C8: the parse result is a function of (fileName, text) only: two parses
\* of the same (fileName, text), in any order and with parses of other files
\* in between, return equal results, and what a parse returned is what a
\* parse of its input alone returns, whatever was parsed before or after.
C8_ResultIsFunctionOfInput ==
    /\ \A i, j \in 1..Len(parsedFiles) :
           (/\ parsedFiles[i].parser = parsedFiles[j].parser
            /\ parsedFiles[i].fileName = parsedFiles[j].fileName
            /\ parsedFiles[i].text = parsedFiles[j].text)
               => parsedFiles[i].parsed = parsedFiles[j].parsed
    /\ \A i \in 1..Len(parsedFiles) :
           parsedFiles[i].parsed
               = LoneParse(parsedFiles[i].parser, parsedFiles[i].fileName, parsedFiles[i].text)
    /\ pc = "done" => result = LoneParse(parser, fileName, text)

\* C8 witness: the same file parsed first and third, another file under
\* another name in between, every result carrying warnings
C8_Witness ==
    /\ Len(parsedFiles) = 3
    /\ parsedFiles[1].fileName = parsedFiles[3].fileName
    /\ parsedFiles[1].text = parsedFiles[3].text
    /\ parsedFiles[1].parser = parsedFiles[3].parser
    /\ parsedFiles[2].fileName # parsedFiles[1].fileName
    /\ parsedFiles[2].text # parsedFiles[1].text
    /\ \A i \in 1..3 :
           /\ parsedFiles[i].parsed # NoResult
           /\ Len(parsedFiles[i].parsed[1].warnings) >= 1
    /\ parsedFiles[1].parsed = parsedFiles[3].parsed

\* the lines splitMetaAndTests works on
SplitLines == locals[1].lines

BlankAfterTrim(line) == \A k \in 1..Len(line) : line[k] \in {SP, LF, CR, BOM}

NotBlankAfterTrim(line) == ~BlankAfterTrim(line)

\* the indices (from 1) of the blank lines with a non-blank line after them
SeparatorCandidates ==
    {i \in 1..Len(SplitLines) :
        /\ BlankAfterTrim(SplitLines[i])
        /\ \E j \in (i + 1)..Len(SplitLines) : NotBlankAfterTrim(SplitLines[j])}

FallbackWarned ==
    \E k \in 1..Len(split[1].warnings) :
        split[1].warnings[k]
            = fileName \o <<": no blank separator line found; applied positional fallback split.">>

\* C9: splitMetaAndTests takes as separator the smallest index i such that
\* line i is blank after trimming and a later line is non-blank; when there
\* is such an i, the metadata lines are the lines before i, the test lines
\* are the lines after i in their order without the blank ones, and no
\* fallback warning is emitted.
C9_SeparatorIsFirstCandidate ==
    (pc = "split" /\ SeparatorCandidates # {}) =>
        \E i \in SeparatorCandidates :
            /\ \A j \in SeparatorCandidates : i <= j
            /\ locals[1].separatorIndex = i
            /\ locals[1].metaLines = SubSeq(SplitLines, 1, i - 1)
            /\ locals[1].testLines
                   = SelectSeq(SubSeq(SplitLines, i + 1, Len(SplitLines)), NotBlankAfterTrim)
            /\ split[1].testsSectionText = Join(locals[1].testLines, LF)
            /\ ~FallbackWarned

\* C9 witness: two candidate separators, a metadata line before the first,
\* a blank line dropped from the test lines
C9_Witness ==
    /\ pc = "split"
    /\ Cardinality(SeparatorCandidates) >= 2
    /\ locals[1].separatorIndex = 2
    /\ 3 \in SeparatorCandidates
    /\ Len(locals[1].metaLines) = 1
    /\ Len(locals[1].testLines) < Len(SplitLines) - 2
    /\ Len(locals[1].testLines) >= 1

LineCount(s) == Len(SplitOn(s, LF))

\* C10 as stated: the metaSectionText returned by splitMetaAndTests consists
\* of exactly two lines on the separator path and on the fallback path.
C10_MetaSectionTwoLines ==
    pc = "split" => LineCount(split[1].metaSectionText) = 2

MetaShortWarned ==
    \E k \in 1..Len(split[1].warnings) :
        split[1].warnings[k] = fileName \o <<": metadata section has fewer than two rows.">>

\* C10 amended: the metaSectionText returned by splitMetaAndTests is at
\* most two lines.  On the fallback path it is line 0 and line 1 (empty
\* when missing); on the separator path with two or more lines before the
\* separator it is the first two of them; with one line before the
\* separator it is that line alone, with none it is empty, and in both
\* cases the warning of a metadata section short of two rows is emitted.
C10_MetaSectionAtMostTwoLines ==
    pc = "split" =>
        LET meta == split[1].metaSectionText
            before == IF SeparatorCandidates = {} THEN 0
                      ELSE (CHOOSE i \in SeparatorCandidates :
                                \A j \in SeparatorCandidates : i <= j) - 1
        IN  IF SeparatorCandidates = {}
            THEN /\ meta = SplitLines[1] \o <<LF>> \o
                           (IF Len(SplitLines) >= 2 THEN SplitLines[2] ELSE <<>>)
                 /\ LineCount(meta) = 2
            ELSE IF before >= 2
            THEN /\ meta = SplitLines[1] \o <<LF>> \o SplitLines[2]
                 /\ LineCount(meta) = 2
                 /\ ~MetaShortWarned
            ELSE IF before = 1
            THEN meta = SplitLines[1] /\ MetaShortWarned
            ELSE meta = <<>> /\ MetaShortWarned

\* C10 witness: three lines before the separator, the first two returned
C10_Witness ==
    /\ pc = "split"
    /\ SeparatorCandidates # {}
    /\ locals[1].separatorIndex = 4
    /\ Len(locals[1].metaLines) = 3
    /\ LineCount(split[1].metaSectionText) = 2

\* the result carries the warning of a metadata section short of two rows
ResultWarnsMetaShort ==
    \E k \in 1..Len(Returned1.warnings) :
        Returned1.warnings[k] = fileName \o <<": metadata section has fewer than two rows.">>

\* no metadata value: raw is empty, the typed fields are absent or null
MetaIsEmpty ==
    LET meta == Returned1.meta
    IN  /\ meta.raw = <<>>
        /\ meta.serialNumber = Undefined /\ meta.result = Undefined
        /\ meta.detailResult = Undefined /\ meta.stationId = Undefined
        /\ meta.testName = Undefined /\ meta.testDefinitionFile = Undefined
        /\ meta.testVersion = Undefined /\ meta.testDefinitionVersion = Undefined
        /\ meta.date = Undefined /\ meta.time = Undefined /\ meta.serial1 = Undefined
        /\ meta.testTimeSeconds = Null /\ meta.sitesNumber = Null

\* C11: whenever the metadata section produced by the split has fewer than
\* two lines, parsing still completes with a result; its warnings contain
\* the warning of a metadata section short of two rows, and the missing
\* metadata row is treated as empty (raw without values, typed fields absent
\* or null).
C11_MetaShortWarned ==
    (pc \in {"split", "parsed", "done", "thrown"} /\ Len(locals[1].metaLines) < 2) =>
        /\ pc # "thrown"
        /\ pc = "done" => ResultWarnsMetaShort /\ MetaIsEmpty

\* the metadata record handed to normalizeParsedData, {} when there is none
GivenMetaRecord == IF metaRecords = <<>> THEN <<>> ELSE metaRecords[1]

\* the number a metadata cell stands for: null unless it is a numeral
MetaNumberIsRight(cell, field) ==
    /\ NotNumericCell(cell) => field = Null
    /\ cell = Some(<<"1", "2">>) => field = Some(12)
    /\ (cell # Undefined /\ IsDecimalNumeral(cell[1])) => field # Null

\* meta is fully populated from the metadata record: every typed field holds
\* the trimmed cell under its name, raw every cell under a non-blank name
MetaPopulated ==
    LET m == GivenMetaRecord
        meta == Returned1.meta
    IN  /\ meta.serialNumber = RecCell(m, <<"SerialNumber">>)
        /\ meta.result = RecCell(m, <<"Result">>)
        /\ meta.detailResult = RecCell(m, <<"DetailResult">>)
        /\ meta.stationId = RecCell(m, <<"StationID">>)
        /\ meta.testName = RecCell(m, <<"TestName">>)
        /\ meta.testDefinitionFile = RecCell(m, <<"TestDefinitionFile">>)
        /\ meta.testVersion = RecCell(m, <<"TestVersion">>)
        /\ meta.testDefinitionVersion = RecCell(m, <<"TestDefinitionVersion">>)
        /\ meta.date = RecCell(m, <<"Date">>)
        /\ meta.time = RecCell(m, <<"Time">>)
        /\ meta.serial1 = RecCell(m, <<"Serial1">>)
        /\ MetaNumberIsRight(RecCell(m, <<"TestTime">>), meta.testTimeSeconds)
        /\ MetaNumberIsRight(RecCell(m, <<"SitesNumber">>), meta.sitesNumber)
        /\ \A i \in 1..Len(m) :
               Trim(m[i].k) # <<>> =>
                   \E j \in 1..Len(meta.raw) :
                       /\ meta.raw[j].k = Trim(m[i].k)
                       /\ Some(meta.raw[j].v) = RecCell(m, Trim(m[i].k))

\* C12: whenever normalizeParsedData is called with an empty testRecords
\* sequence, it returns the prior warnings followed by exactly one warning
\* "<fileName>: test section is empty.", tests = [], and meta fully
\* populated from metaRecord.
C12_EmptyTestRecords ==
    (pc = "done" /\ testRecords = <<>>) =>
        /\ Returned1.warnings
               = split[1].warnings \o << fileName \o <<": test section is empty.">> >>
        /\ Returned1.tests = <<>>
        /\ MetaPopulated

\* C12 witness: no test record, a prior warning, a metadata record with a
\* numeric TestTime and a header that is no typed name
C12_Witness ==
    /\ pc = "done" /\ testRecords = <<>>
    /\ Len(split[1].warnings) = 1
    /\ Len(Returned1.warnings) = 2
    /\ Returned1.meta.serialNumber = Some(<<"SN1">>)
    /\ Returned1.meta.testTimeSeconds = Some(12)

\* the row of tests is Fail/Skipped: PassFail is exactly Fail and Status is
\* exactly Skipped
RowIsFailSkipped(k) ==
    /\ Returned1.tests[k].passFail = Some(<<"Fail">>)
    /\ Returned1.tests[k].status = Some(<<"Skipped">>)

FailSkippedRows == {k \in 1..Len(Returned1.tests) : RowIsFailSkipped(k)}

FailSkippedText(n) ==
    fileName \o <<": row ">> \o NumberToString(n) \o <<" has PassFail=Fail with Status=Skipped.">>

\* the n of a warning "<fileName>: row <n> has PassFail=Fail with
\* Status=Skipped.", 0 when the warning is not of that form
RowOfWarning(w) ==
    IF \E n \in 1..(MaxRecords + 2) : w = FailSkippedText(n)
    THEN CHOOSE n \in 1..(MaxRecords + 2) : w = FailSkippedText(n)
    ELSE 0

\* the warnings added by normalizeParsedData to the ones handed in
AddedWarnings == SubSeq(Returned1.warnings, Len(split[1].warnings) + 1, Len(Returned1.warnings))

\* the j-th Fail/Skipped row of tests, counting from 1
NthFailSkippedRow(j) ==
    CHOOSE k \in FailSkippedRows : Cardinality({h \in FailSkippedRows : h <= k}) = j

\* C13: for every row emitted into tests, one warning "<fileName>: row <n>
\* has PassFail=Fail with Status=Skipped." is appended if and only if the
\* row's trimmed PassFail is exactly Fail and its trimmed Status exactly
\* Skipped; the row is emitted all the same, and the warnings of several
\* such rows come in row order.
C13_FailSkippedWarned ==
    (pc = "done" /\ testRecords # <<>>) =>
        /\ SubSeq(Returned1.warnings, 1, Len(split[1].warnings)) = split[1].warnings
        /\ Len(AddedWarnings) = Cardinality(FailSkippedRows)
        /\ \A j \in 1..Len(AddedWarnings) : RowOfWarning(AddedWarnings[j]) > 0
        /\ \A j, h \in 1..Len(AddedWarnings) :
               j < h => RowOfWarning(AddedWarnings[j]) < RowOfWarning(AddedWarnings[h])
        /\ \A i \in 1..Len(testRecords) :
               (NonBlankRecord(testRecords[i]) /\ RecordIsFailSkipped(testRecords[i])) =>
                   NonBlankUpTo(i) \in FailSkippedRows

\* C13 witness: two Fail/Skipped rows (one written with padding) around a
\* row whose verdict is "fail" in lower case, two warnings
C13_Witness ==
    /\ pc = "done" /\ Len(Returned1.tests) = 3
    /\ FailSkippedRows = {1, 3}
    /\ Returned1.tests[2].passFail = Some(<<"fail">>)
    /\ Returned1.tests[2].status = Some(<<"Skipped">>)
    /\ Len(AddedWarnings) = 2

\* C14: the row number n of a Fail/Skipped warning is the position of the
\* record in the test section counting the header as line 1 and leaving out
\* the entirely blank records; equivalently the 0-based position of the row
\* in tests plus 2, so that the first data row is row 2.
C14_RowNumber ==
    (pc = "done" /\ testRecords # <<>>) =>
        /\ \A j \in 1..Len(AddedWarnings) :
               j <= Cardinality(FailSkippedRows) =>
                   RowOfWarning(AddedWarnings[j]) = (NthFailSkippedRow(j) - 1) + 2
        /\ \A i \in 1..Len(testRecords) :
               (NonBlankRecord(testRecords[i]) /\ RecordIsFailSkipped(testRecords[i])) =>
                   \E j \in 1..Len(AddedWarnings) :
                       AddedWarnings[j] = FailSkippedText(1 + NonBlankUpTo(i))

\* C14 witness: an entirely blank record before a Fail/Skipped record that
\* is third in the section and second in tests: it is reported as row 3
C14_Witness ==
    /\ pc = "done" /\ Len(testRecords) = 3
    /\ ~NonBlankRecord(testRecords[2])
    /\ RecordIsFailSkipped(testRecords[3])
    /\ Len(Returned1.tests) = 2
    /\ AddedWarnings = <<FailSkippedText(3)>>

IsVerdictKey(key) == Trim(key) \in {<<"PassFail">>, <<"Status">>}

\* the two records have the same cells but for the PassFail and Status ones
DifferOnlyInVerdict(r1, r2) ==
    /\ Len(r1) = Len(r2)
    /\ \A c \in 1..Len(r1) :
           /\ r1[c].k = r2[c].k
           /\ ~IsVerdictKey(r1[c].k) => r1[c].v = r2[c].v

\* C15: the computed fields of a row do not depend on the vendor verdict:
\* two non-blank test records that differ only in PassFail and/or Status
\* give rows with the same value, lowerLimit, upperLimit, isNumericValue,
\* hasAnyLimit and inLimit, whether or not the Fail/Skipped warning is
\* raised.
C15_VerdictIndependent ==
    pc = "done" =>
        \A i, j \in 1..Len(testRecords) :
            (/\ DifferOnlyInVerdict(testRecords[i], testRecords[j])
             /\ NonBlankRecord(testRecords[i]) /\ NonBlankRecord(testRecords[j])) =>
                \E a \in {Returned1.tests[NonBlankUpTo(i)]},
                   b \in {Returned1.tests[NonBlankUpTo(j)]} :
                    /\ a.value = b.value
                    /\ a.lowerLimit = b.lowerLimit
                    /\ a.upperLimit = b.upperLimit
                    /\ a.isNumericValue = b.isNumericValue
                    /\ a.hasAnyLimit = b.hasAnyLimit
                    /\ a.inLimit = b.inLimit

\* C15 witness: a row in limit with verdict Pass/Passed and the same row
\* with verdict Fail/Skipped, warned, both in limit
C15_Witness ==
    /\ pc = "done" /\ Len(testRecords) = 2
    /\ testRecords[1] # testRecords[2]
    /\ DifferOnlyInVerdict(testRecords[1], testRecords[2])
    /\ Len(Returned1.tests) = 2
    /\ Returned1.tests[1].inLimit = Some(TRUE)
    /\ Returned1.tests[2].inLimit = Some(TRUE)
    /\ FailSkippedRows = {2}
    /\ Len(AddedWarnings) = 1

\* the text without a byte order mark at position 0
WithoutLeadingBom == IF Len(text) >= 1 /\ text[1] = BOM THEN Tail(text) ELSE text

\* the positions of WithoutLeadingBom that are not the LF of a CR LF pair
KeptPositions ==
    {i \in 1..Len(WithoutLeadingBom) :
        ~(WithoutLeadingBom[i] = LF /\ i > 1 /\ WithoutLeadingBom[i - 1] = CR)}

\* the text with the mark at position 0 removed, every CR LF pair and every
\* bare CR turned into one LF, every other character kept in its place
ExpectedNormalized ==
    [j \in 1..Cardinality(KeptPositions) |->
        LET i == CHOOSE p \in KeptPositions :
                     Cardinality({q \in KeptPositions : q <= p}) = j
        IN  IF WithoutLeadingBom[i] = CR THEN LF ELSE WithoutLeadingBom[i]]

\* C16: for every text, normalizeInput returns the text with one byte order
\* mark removed only if it is at position 0, every CR LF pair and every bare
\* CR replaced by a single LF, and every other character unchanged and in
\* order; the output has no CR, and normalizeInput of an output that does
\* not begin with the mark is that output.
C16_NormalizeInput ==
    pc = "split" =>
        LET out == locals[1].normalized
        IN  /\ out = ExpectedNormalized
            /\ \A i \in 1..Len(out) : out[i] # CR
            /\ (out = <<>> \/ out[1] # BOM) => normalizeInput(out) = out

\* C16 witness: a mark at position 0 and a second one after it, a CR LF
\* pair and a bare CR: the second mark stays, the terminators become two LF
C16_Witness ==
    /\ pc = "split"
    /\ text = <<BOM, BOM, CR, LF, CR, "a">>
    /\ locals[1].normalized = <<BOM, LF, LF, "a">>

\* a base-10 numeral: an optional sign, then digits with an optional
\* decimal point among them, then an optional exponent (e or E, an optional
\* sign, digits)
IsBase10Numeral(s) ==
    LET body == IF s # <<>> /\ s[1] \in {"+", "-"} THEN Tail(s) ELSE s
        isDigit(c) == c \in {"0", "1", "2", "3", "4", "5", "6", "7", "8", "9"}
        es == {i \in 1..Len(body) : body[i] \in {"e", "E"}}
        mantEnd == IF es = {} THEN Len(body) ELSE (CHOOSE i \in es : \A j \in es : i <= j) - 1
        mant == SubSeq(body, 1, mantEnd)
        exp == SubSeq(body, mantEnd + 2, Len(body))
        expDigits == IF exp # <<>> /\ exp[1] \in {"+", "-"} THEN Tail(exp) ELSE exp
    IN  /\ \A i \in 1..Len(mant) : isDigit(mant[i]) \/ mant[i] = "."
        /\ Cardinality({i \in 1..Len(mant) : mant[i] = "."}) <= 1
        /\ \E i \in 1..Len(mant) : isDigit(mant[i])
        /\ es # {} => /\ expDigits # <<>>
                      /\ \A i \in 1..Len(expDigits) : isDigit(expDigits[i])

\* C17: toNumberOrNull returns null when the input is absent or trims to
\* the empty string, and a number only when the trimmed input is a numeral
\* in base-10 notation (optional sign, digits, optional decimal point,
\* optional exponent); every other string, such as 0x1F, "()", N/A, "1,5",
\* Infinity or NaN, gives null.
C17_Base10Only ==
    pc = "number-done" =>
        /\ (rawCell = Undefined \/ Trim(rawCell[1]) = <<>>) => value = Null
        /\ value # Null => IsBase10Numeral(Trim(rawCell[1]))

\* raw holds every header of the record m that has a non-blank trimmed name,
\* mapped to the trimmed string of its cell
RawHoldsHeaders(m, metaRaw) ==
    \A i \in 1..Len(m) :
        Trim(m[i].k) # <<>> =>
            ObjGet(metaRaw, Trim(m[i].k)) = RecCell(m, Trim(m[i].k))

\* a typed field is set by the header of its own name only: without that
\* header it is absent, whatever other headers the record has
TypedFieldsNeedOwnHeader(m, meta) ==
    /\ RecCell(m, <<"SerialNumber">>) = Undefined => meta.serialNumber = Undefined
    /\ RecCell(m, <<"Result">>) = Undefined => meta.result = Undefined
    /\ RecCell(m, <<"DetailResult">>) = Undefined => meta.detailResult = Undefined
    /\ RecCell(m, <<"StationID">>) = Undefined => meta.stationId = Undefined
    /\ RecCell(m, <<"TestName">>) = Undefined => meta.testName = Undefined
    /\ RecCell(m, <<"TestDefinitionFile">>) = Undefined
           => meta.testDefinitionFile = Undefined
    /\ RecCell(m, <<"TestVersion">>) = Undefined => meta.testVersion = Undefined
    /\ RecCell(m, <<"TestDefinitionVersion">>) = Undefined
           => meta.testDefinitionVersion = Undefined
    /\ RecCell(m, <<"TestTime">>) = Undefined => meta.testTimeSeconds = Null
    /\ RecCell(m, <<"SitesNumber">>) = Undefined => meta.sitesNumber = Null
    /\ RecCell(m, <<"Date">>) = Undefined => meta.date = Undefined
    /\ RecCell(m, <<"Time">>) = Undefined => meta.time = Undefined
    /\ RecCell(m, <<"Serial1">>) = Undefined => meta.serial1 = Undefined

\* C18: in every result meta.raw is present: it is the empty mapping when
\* there is no metadata record, and otherwise contains every metadata header
\* with a non-empty trimmed name mapped to its trimmed string value,
\* including unknown headers, which appear in raw only and set no typed
\* field.
C18_MetaRaw ==
    pc = "done" =>
        /\ "raw" \in DOMAIN Returned1.meta
        /\ metaRecords = <<>> => Returned1.meta.raw = <<>>
        /\ RawHoldsHeaders(GivenMetaRecord, Returned1.meta.raw)
        /\ TypedFieldsNeedOwnHeader(GivenMetaRecord, Returned1.meta)

\* C18 witness: a metadata record with the unknown header Operator: raw
\* holds it, and the typed fields without a header of their own are absent
C18_Witness ==
    /\ pc = "done" /\ metaRecords # <<>>
    /\ RecCell(metaRecords[1], <<"Operator">>) = Some(<<"bob">>)
    /\ ObjGet(Returned1.meta.raw, <<"Operator">>) = Some(<<"bob">>)
    /\ Returned1.meta.stationId = Undefined
    /\ Returned1.meta.serialNumber = Some(<<"SN1">>)

\* every available measurement name is selected in the visibility filter
EveryNameSelected == Range(allTsNames) \subseteq Range(app.selectedTsNames)

\* the test rows of the active file whose value is not null, in file order
ActiveValueRows ==
    IF activeFile = Null THEN <<>>
    ELSE SelectSeq(activeFile[1].parsed.tests, LAMBDA test : test.value # Null)

\* C19: when every available measurement name is selected in the visibility
\* filter, the File-view table lists exactly the active file's test rows
\* whose value is not null, in file order, including the rows whose TsName
\* is blank or missing.
C19_TableListsValueRows ==
    (pc = "app" /\ EveryNameSelected) => filteredNumericTests = ActiveValueRows

\* what the table lists when every name is selected: the rows with a value
\* and a non-blank TsName, in file order
C19_TableListsNamedValueRows ==
    (pc = "app" /\ EveryNameSelected) =>
        filteredNumericTests
            = SelectSeq(ActiveValueRows,
                        LAMBDA test : /\ test.tsName # Undefined
                                      /\ Trim(test.tsName[1]) # <<>>)

\* a file with a numeric row without a name is active, every name selected,
\* after All On then Apply
C19_UnnamedRowActive ==
    /\ pc = "app" /\ EveryNameSelected /\ ~app.isFilterModalOpen
    /\ app.draftSelection = allTsNames /\ allTsNames # <<>>
    /\ \E i \in 1..Len(ActiveValueRows) : getNormalizedTsName(ActiveValueRows[i]) = <<>>

\* the test records with a non-blank field under a non-blank name, in the
\* order of the test section
KeptRecords == SelectSeq(testRecords, NonBlankRecord)

\* the row is the TestRow of the record: its raw strings are the record's
\* trimmed cells
RowIsOfRecord(row, record) ==
    /\ row.tsName = RecCell(record, <<"TsName">>)
    /\ row.valueRaw = RecCell(record, <<"Value">>)
    /\ row.lowerLimitRaw = RecCell(record, <<"LowerLimit">>)
    /\ row.passFail = RecCell(record, <<"PassFail">>)
    /\ row.status = RecCell(record, <<"Status">>)
    /\ row.testTimeRaw = RecCell(record, <<"TestTime">>)
    /\ \A i \in 1..Len(record) :
           Trim(record[i].k) # <<>> =>
               ObjGet(row.raw, Trim(record[i].k)) = RecCell(record, Trim(record[i].k))

\* C20: result.tests contains exactly one TestRow for each test record that
\* has at least one non-blank field after sanitizing, in the same relative
\* order as the records, and no row is omitted or reordered because a
\* warning was raised for it or for an earlier row.
C20_OneRowPerRecord ==
    pc = "done" =>
        \E kept \in {KeptRecords} :
            /\ Len(Returned1.tests) = Len(kept)
            /\ \A k \in 1..Len(kept) :
                   \E row \in {Returned1.tests[k]}, record \in {kept[k]} :
                       RowIsOfRecord(row, record)

\* C20 witness: three records, the first one warned as Fail/Skipped, an
\* entirely blank one left out, and a later row named T1 emitted after them
C20_Witness ==
    /\ pc = "done" /\ Len(testRecords) = 3
    /\ RecordIsFailSkipped(testRecords[1])
    /\ ~NonBlankRecord(testRecords[2])
    /\ Len(Returned1.tests) = 2
    /\ Len(Returned1.warnings) > Len(split[1].warnings)
    /\ Returned1.tests[2].tsName = Some(<<"T1">>)
    /\ Returned1.tests[1].tsName # Some(<<"T1">>)

\* a call of handleFilesSelected has got past its await in this step
LoadCompleted == Len(loads') < Len(loads)

\* the files are those of before followed by the files the call picked, in
\* the order picked, each parsed from its own text
AppendedInSelectionOrder(selectedFiles) ==
    /\ Len(app'.files) = Len(app.files) + Len(selectedFiles)
    /\ \A i \in 1..Len(selectedFiles) :
           /\ app'.files[Len(app.files) + i].fileName = selectedFiles[i][1]
           /\ <<app'.files[Len(app.files) + i].parsed>>
                  = LoneParse("browser", selectedFiles[i][1], selectedFiles[i][2])

\* C21: each completed file load appends its parsed files to the end of the
\* loaded-files list in selection order; no previously loaded file is
\* removed, replaced or reordered by any step, and a load that completes
\* while the list has grown since it started (two loads overlap) appends to
\* the list of now, so that the files of both are present afterwards.
C21_LoadsAppend ==
    [][ /\ Len(app'.files) >= Len(app.files)
        /\ SubSeq(app'.files, 1, Len(app.files)) = app.files
        /\ LoadCompleted =>
               \E c \in 1..Len(loads) : AppendedInSelectionOrder(loads[c].selectedFiles)
        /\ ~LoadCompleted => app'.files = app.files ]_vars

\* C21 witness: two loads overlapped: the first has completed and its file
\* is in the list, the second, started when the list was empty, still waits
C21_Witness ==
    /\ pc = "app" /\ Len(loads) = 1
    /\ loads[1].files = <<>>
    /\ Len(app.files) >= 1
    /\ Len(loads[1].selectedFiles) = 2

\* C22: the active file is set automatically only by the first load, to the
\* first loaded file; once a file is active, the completion of a file load
\* never changes which file is active, also when the load was started
\* before the first load completed and finishes after it.
C22_ActiveKept ==
    [][ LoadCompleted =>
            IF app.activeFileId = Null
            THEN app'.activeFileId = Some(app'.files[1].id)
            ELSE app'.activeFileId = app.activeFileId ]_vars

\* what a completed load does to the active file: a call whose closure saw
\* a file active leaves it, a call whose closure saw none makes the first
\* file of the list active, whatever is active by then
C22_ActiveFollowsClosure ==
    [][ LoadCompleted =>
            \E c \in 1..Len(loads) :
                /\ loads' = SubSeq(loads, 1, c - 1) \o SubSeq(loads, c + 1, Len(loads))
                /\ IF loads[c].activeFileId = Null
                   THEN app'.activeFileId = Some(app'.files[1].id)
                   ELSE app'.activeFileId = app.activeFileId ]_vars

\* the files a step has appended to the list
AppendedFiles == SubSeq(app'.files, Len(app.files) + 1, Len(app'.files))

\* C23: a completed load adds to the selected measurement names exactly the
\* non-blank names of numeric rows in the new files that occur in no
\* previously loaded file; it removes no selected name and re-selects no
\* name of an earlier file that the user has deselected, also when file
\* loads overlap.
C23_SelectsNewNamesOnly ==
    [][ LoadCompleted =>
            Range(app'.selectedTsNames)
                = Range(app.selectedTsNames)
                      \cup (Range(collectUniqueNumericTsNames(AppendedFiles))
                                \ Range(collectUniqueNumericTsNames(app.files))) ]_vars

\* what a completed load selects: the numeric names of the new files that
\* the files of the call's closure did not have
C23_SelectsNamesNewToClosure ==
    [][ LoadCompleted =>
            \E c \in 1..Len(loads) :
                /\ loads' = SubSeq(loads, 1, c - 1) \o SubSeq(loads, c + 1, Len(loads))
                /\ Range(app'.selectedTsNames)
                       = Range(app.selectedTsNames)
                             \cup (Range(collectUniqueNumericTsNames(AppendedFiles))
                                       \ Range(collectUniqueNumericTsNames(loads[c].files))) ]_vars

\* the draft restricted to the names available now
DraftOfAvailable ==
    SelectSeq(app.draftSelection, LAMBDA tsName : tsName \in Range(allTsNames))

\* C24: in the filter modal, draft edits (checkbox toggles, All On, All Off)
\* change the applied selection only through Apply, which sets it to the
\* draft restricted to the currently available names and closes the modal;
\* closing by Cancel, the x button, an overlay click or Escape leaves the
\* applied selection unchanged, and reopening the modal starts the draft
\* from the currently applied selection.
C24_DraftAppliedOnlyByApply ==
    [][ /\ (ToggleDraft \/ AllOn \/ AllOff) =>
               /\ app'.selectedTsNames = app.selectedTsNames
               /\ app'.isFilterModalOpen
        /\ applyDraftSelection =>
               /\ app'.selectedTsNames = DraftOfAvailable
               /\ ~app'.isFilterModalOpen
        /\ closeFilterModal =>
               /\ app'.selectedTsNames = app.selectedTsNames
               /\ ~app'.isFilterModalOpen
        /\ (app'.selectedTsNames # app.selectedTsNames /\ ~LoadCompleted) =>
               /\ app.isFilterModalOpen /\ ~app'.isFilterModalOpen
               /\ app'.selectedTsNames = DraftOfAvailable
        /\ (~app.isFilterModalOpen /\ app'.isFilterModalOpen) =>
               /\ app'.draftSelection = app.selectedTsNames
               /\ app'.selectedTsNames = app.selectedTsNames ]_vars

\* C24 witness: the modal is open, the applied selection holds some but not
\* all of the available names (a partial draft has been applied), and the
\* draft is the applied selection
C24_Witness ==
    /\ pc = "app" /\ app.isFilterModalOpen
    /\ app.draftSelection = app.selectedTsNames
    /\ app.selectedTsNames # <<>>
    /\ Range(app.selectedTsNames) # Range(allTsNames)

\* the text is one non-blank line: no line terminator in it
SingleLineInput == Len(SplitLines) = 1 /\ NotBlankAfterTrim(SplitLines[1])

\* C25: the warnings "no blank separator line found; applied positional
\* fallback split" and "metadata section has fewer than two rows" never both
\* occur: on the fallback path the metadata lines are padded to two, so a
\* file of a single header line, with no value row and no separator, gets
\* the fallback warning and not the warning of fewer than two rows.
C25_FallbackNeverShort ==
    pc = "split" =>
        /\ ~(FallbackWarned /\ MetaShortWarned)
        /\ SeparatorCandidates = {} => (FallbackWarned /\ ~MetaShortWarned)
        /\ SingleLineInput =>
               split[1].warnings
                   = << fileName \o <<": no blank separator line found; applied positional fallback split.">> >>

\* C25 witness: a file of the single line "a" has been split with the
\* fallback warning alone
C25_Witness ==
    /\ pc = "split" /\ text = <<"a">>
    /\ SingleLineInput
    /\ FallbackWarned
    /\ Len(split[1].warnings) = 1

\* the result carries the warning of an empty test section
ResultWarnsTestsEmpty ==
    \E k \in 1..Len(Returned1.warnings) :
        Returned1.warnings[k] = fileName \o <<": test section is empty.">>

\* C26: for every call of normalizeParsedData, the returned warnings contain
\* "<fileName>: test section is empty." if and only if the returned tests
\* sequence is empty, in particular also when testRecords is non-empty but
\* every record is entirely blank.
C26_EmptyWarnedIffNoTests ==
    pc = "done" => (ResultWarnsTestsEmpty <=> Returned1.tests = <<>>)

\* the warning of an empty test section is given exactly when there is no
\* test record at all
C26_EmptyWarnedIffNoRecords ==
    pc = "done" => (ResultWarnsTestsEmpty <=> testRecords = <<>>)

\* every test record is entirely blank, there is at least one: tests is
\* empty and no warning tells
C26_AllBlankUnwarned ==
    /\ pc = "done" /\ testRecords # <<>>
    /\ Returned1.tests = <<>>
    /\ ~ResultWarnsTestsEmpty

\* the non-blank lines of a sequence of lines, in order
NonBlankLinesOf(lines) == SelectSeq(lines, NotBlankAfterTrim)

\* the non-blank lines of the two section texts returned
SectionLines ==
    NonBlankLinesOf(SplitOn(split[1].metaSectionText, LF))
        \o NonBlankLinesOf(SplitOn(split[1].testsSectionText, LF))

\* C27: splitMetaAndTests never silently discards content: every non-blank
\* line of the normalized input appears in exactly one of metaSectionText
\* and testsSectionText, or else a warning is emitted, in particular when
\* more than two non-blank lines precede the separator line.
C27_NothingLostSilently ==
    (pc = "split" /\ split[1].warnings = <<>>) =>
        SectionLines = NonBlankLinesOf(SplitLines)

\* lines are lost only from a metadata section of more than two lines: with
\* no separator, or with at most two lines before it, every non-blank line
\* is in one of the two section texts
C27_NothingLostUpToTwoMetaLines ==
    (pc = "split" /\ (SeparatorCandidates = {} \/ \E j \in SeparatorCandidates : j <= 3)) =>
        SectionLines = NonBlankLinesOf(SplitLines)

\* three lines before the separator: the third is in neither section and
\* there is no warning
C27_ThirdMetaLineLost ==
    /\ pc = "split" /\ split[1].warnings = <<>>
    /\ Len(SplitLines) = 5
    /\ \A i \in {1, 2, 3, 5} : SplitLines[i] = <<"a">>
    /\ Len(SectionLines) = 3

\* k line terminators "\n"
RECURSIVE LineFeeds(_)
LineFeeds(k) == IF k = 0 THEN <<>> ELSE <<LF>> \o LineFeeds(k - 1)

\* the line terminators added after a text: up to MaxTrail "\n", and one
\* "\r\n" or "\r"
Trailers == {LineFeeds(k) : k \in 1..MaxTrail} \cup {<<CR, LF>>, <<CR>>}

\* what the call under way has come to: its result, nothing when it threw
Outcome == IF pc = "thrown" THEN NoResult ELSE result

\* C28: trailing blank lines are never taken as the section separator and
\* do not change the outcome: for every text t and k >= 1, parsing t
\* followed by k additional line terminators yields the same meta, tests
\* and warnings as parsing t (and throws where parsing t throws).
C28_TrailingBlankLinesIgnored ==
    pc \in {"done", "thrown"} =>
        \A trailer \in Trailers : LoneParse(parser, fileName, text \o trailer) = Outcome

\* C28 witness: a file with a separator and a test row has been parsed
\* without a warning; with a line terminator more, its last line is blank
C28_Witness ==
    /\ pc = "done" /\ text # <<>>
    /\ text[Len(text)] # LF
    /\ Len(Returned1.tests) >= 1
    /\ Returned1.warnings = <<>>
    /\ Returned1.meta.serialNumber = Some(<<"SN1">>)

====
